---- MODULE Spec2Model ----
(***************************************************************************)
(* WordMint mobile wallet handshake (deep-link path).                      *)
(*                                                                         *)
(* Model of src/src/utils/mobile-wallet-protocol.ts (session store, deep   *)
(* link builder, return-channel parser, response decryptor, URL sanitizer) *)
(* and of the React component that drives it,                              *)
(* src/src/components/mobile-wallet-connect.tsx, mounted by                *)
(* src/src/components/wallet-button.tsx under the useWallet hook.          *)
(*                                                                         *)
(* Time is counted in minutes.  Byte buffers are sequences of 0..255,      *)
(* base64 text is a sequence of alphabet indices 0..63 with 64 for '=',    *)
(* base58 text is a sequence of alphabet indices 0..57 (58 stands for a    *)
(* character outside the alphabet).                                        *)
(***************************************************************************)
EXTENDS Integers, Sequences, FiniteSets, TLC

(***************************************************************************)
(* Bounds of the model.                                                    *)
(***************************************************************************)
MaxLen == 3
MaxTicks == 2          \* the clock advances at most this many times
MaxSessions == 2       \* createMobileWalletSession runs at most this many times
KeyLen == 2            \* length of a key buffer (32 in tweetnacl)
NonceLen == 1          \* length of a nonce buffer (24 in tweetnacl)
MaxParams == 3         \* a query string has at most this many parameters
MaxCleanRuns == 2      \* cleanMobileWalletReturnUrl runs at most this many times on a page
MaxMounts == 3         \* useWallet is mounted at most this many times
MaxRequests == 3       \* the server receives at most this many requests
MaxAnswers == 3        \* the player answers at most this many words
MaxClaims == 2         \* Claim Rewards is clicked at most this many times
MaxRetryLimit == 4     \* retryRpcCall is called with maxRetries up to this

(***************************************************************************)
(* Program constants.                                                      *)
(***************************************************************************)
SessionLifetime == 30  \* 30 * 60 * 1000 ms, in minutes

(***************************************************************************)
(* Sequence helpers.                                                       *)
(***************************************************************************)
Reverse(s) == [i \in 1..Len(s) |-> s[Len(s) + 1 - i]]

\* the number of leading elements of s equal to x
LeadingCount(s, x) ==
  IF \A i \in 1..Len(s) : s[i] = x THEN Len(s)
  ELSE (CHOOSE i \in 1..Len(s) : s[i] # x /\ \A j \in 1..(i - 1) : s[j] = x) - 1

Repeat(x, n) == [i \in 1..n |-> x]

DropFirst(s, n) == SubSeq(s, n + 1, Len(s))

(***************************************************************************)
(* base64: btoa(String.fromCharCode(...bytes)) and atob.                   *)
(***************************************************************************)
Pad64 == 64

RECURSIVE arrayBufferToBase64(_)
arrayBufferToBase64(buffer) ==
  IF Len(buffer) = 0 THEN <<>>
  ELSE IF Len(buffer) = 1 THEN
    << buffer[1] \div 4, (buffer[1] % 4) * 16, Pad64, Pad64 >>
  ELSE IF Len(buffer) = 2 THEN
    << buffer[1] \div 4,
       (buffer[1] % 4) * 16 + buffer[2] \div 16,
       (buffer[2] % 16) * 4,
       Pad64 >>
  ELSE
    << buffer[1] \div 4,
       (buffer[1] % 4) * 16 + buffer[2] \div 16,
       (buffer[2] % 16) * 4 + buffer[3] \div 64,
       buffer[3] % 64 >>
    \o arrayBufferToBase64(DropFirst(buffer, 3))

\* atob: strips at most two trailing '=' when the length is a multiple of 4
StripPad64(s) ==
  IF Len(s) % 4 = 0 /\ Len(s) > 0 /\ s[Len(s)] = Pad64
  THEN IF s[Len(s) - 1] = Pad64 THEN SubSeq(s, 1, Len(s) - 2)
       ELSE SubSeq(s, 1, Len(s) - 1)
  ELSE s

RECURSIVE Sextets2Bytes(_)
Sextets2Bytes(s) ==
  IF Len(s) = 0 THEN <<>>
  ELSE IF Len(s) = 2 THEN << s[1] * 4 + s[2] \div 16 >>
  ELSE IF Len(s) = 3 THEN
    << s[1] * 4 + s[2] \div 16, (s[2] % 16) * 16 + s[3] \div 4 >>
  ELSE
    << s[1] * 4 + s[2] \div 16,
       (s[2] % 16) * 16 + s[3] \div 4,
       (s[3] % 4) * 64 + s[4] >>
    \o Sextets2Bytes(DropFirst(s, 4))

\* atob throws on a character outside the alphabet or a length of 1 mod 4
Base64Valid(base64) ==
  LET body == StripPad64(base64)
  IN /\ \A i \in 1..Len(body) : body[i] \in 0..63
     /\ Len(body) % 4 # 1

base64ToArrayBuffer(base64) == Sextets2Bytes(StripPad64(base64))

(***************************************************************************)
(* base58: bs58.encode / bs58.decode (base-x: digit array with carry,      *)
(* leading zero bytes <-> leading '1' characters, index 0).                *)
(***************************************************************************)
\* the carry loop over the digits present: the new digits and the carry left
\* (the array is walked in halves, which keeps the evaluation shallow)
RECURSIVE CarryPass(_, _, _, _)
CarryPass(digits, carry, mul, base) ==
  IF Len(digits) = 0 THEN [digits |-> <<>>, carry |-> carry]
  ELSE IF Len(digits) = 1 THEN
    LET c == carry + digits[1] * mul
    IN [digits |-> <<c % base>>, carry |-> c \div base]
  ELSE
    LET half == Len(digits) \div 2
        lo == CarryPass(SubSeq(digits, 1, half), carry, mul, base)
        hi == CarryPass(SubSeq(digits, half + 1, Len(digits)), lo.carry, mul, base)
    IN [digits |-> lo.digits \o hi.digits, carry |-> hi.carry]

\* the digits the carry loop appends while the carry is not zero
RECURSIVE CarryDigits(_, _)
CarryDigits(carry, base) ==
  IF carry = 0 THEN <<>>
  ELSE <<carry % base>> \o CarryDigits(carry \div base, base)

\* one pass of the carry loop over the little-endian digit array
CarryInto(digits, carry, mul, base) ==
  LET pass == CarryPass(digits, carry, mul, base)
  IN pass.digits \o CarryDigits(pass.carry, base)

\* digits of the big-endian number src (radix mul) in radix base, little-endian
\* (src is walked in halves and the digit array is asked for first, which keeps
\* the evaluation shallow)
RECURSIVE BaseConvert(_, _, _, _)
BaseConvert(src, digits, mul, base) ==
  IF Len(digits) < 0 \/ Len(src) = 0 THEN digits
  ELSE IF Len(src) = 1 THEN CarryInto(digits, src[1], mul, base)
  ELSE LET half == Len(src) \div 2
       IN BaseConvert(SubSeq(src, half + 1, Len(src)),
                      BaseConvert(SubSeq(src, 1, half), digits, mul, base),
                      mul, base)

\* bs58.encode without the leading '1' characters for leading zero bytes
bs58encodeWithoutLeadingZeroes(source) ==
  Reverse(BaseConvert(source, <<>>, 256, 58))

bs58encode(source) ==
  LET zeroes == LeadingCount(source, 0)
  IN Repeat(0, zeroes)
     \o Reverse(BaseConvert(DropFirst(source, zeroes), <<>>, 256, 58))

Base58Valid(str) == \A i \in 1..Len(str) : str[i] \in 0..57

bs58decode(str) ==
  LET zeroes == LeadingCount(str, 0)
  IN Repeat(0, zeroes)
     \o Reverse(BaseConvert(DropFirst(str, zeroes), <<>>, 58, 256))

(***************************************************************************)
(* Key pairs and authenticated encryption (tweetnacl box).                 *)
(*                                                                         *)
(* Key pair k has public key <<k, 1, ..>>, secret key <<k, 2, ..>>.  A box  *)
(* is the payload followed by an authenticator over the payload, the shared*)
(* key (symmetric in the two key pairs, as X25519 is) and the nonce: open  *)
(* succeeds exactly on buffers box produced for the same keys and nonce.   *)
(***************************************************************************)
naclBoxKeyPair(k) ==
  [publicKey |-> <<k>> \o Repeat(1, KeyLen - 1),
   secretKey |-> <<k>> \o Repeat(2, KeyLen - 1)]

\* the public key that belongs to a secret key (scalar multiplication)
PublicOfSecret(secretKey) == <<secretKey[1]>> \o Repeat(1, KeyLen - 1)

RECURSIVE LexLeq(_, _)
LexLeq(a, b) ==
  IF a = <<>> THEN TRUE
  ELSE IF b = <<>> THEN FALSE
  ELSE IF Head(a) # Head(b) THEN Head(a) < Head(b)
  ELSE LexLeq(Tail(a), Tail(b))

\* nacl.box.before: the same for (A's public, B's secret) and (B's public, A's secret)
SharedKey(publicKey, secretKey) ==
  LET mine == PublicOfSecret(secretKey)
  IN IF LexLeq(publicKey, mine) THEN publicKey \o mine ELSE mine \o publicKey

Authenticator(message, nonce, publicKey, secretKey) ==
  SharedKey(publicKey, secretKey) \o nonce \o [i \in 1..Len(message) |-> 255 - message[i]]

\* nacl.box(message, nonce, theirPublicKey, mySecretKey)
naclBox(message, nonce, publicKey, secretKey) ==
  message \o Authenticator(message, nonce, publicKey, secretKey)

NoBytes == <<256>>   \* null: no buffer is returned

\* nacl.box.open(box, nonce, theirPublicKey, mySecretKey); messages are one byte long
naclBoxOpen(box, nonce, publicKey, secretKey) ==
  IF /\ Len(publicKey) = KeyLen
     /\ Len(secretKey) = KeyLen
     /\ Len(nonce) = NonceLen
     /\ Len(box) = 2 + 2 * KeyLen + NonceLen
     /\ DropFirst(box, 1) = Authenticator(SubSeq(box, 1, 1), nonce, publicKey, secretKey)
  THEN SubSeq(box, 1, 1)
  ELSE NoBytes

(***************************************************************************)
(* JavaScript values and the JSON texts a decrypted message can hold.      *)
(***************************************************************************)
JsUndefined == [t |-> "undefined"]
JsNull == [t |-> "null"]
JsString(s) == [t |-> "string", v |-> s]
JsNumber(n) == [t |-> "number", v |-> n]

Truthy(x) ==
  /\ x.t \notin {"undefined", "null"}
  /\ x.t = "string" => x.v # ""
  /\ x.t = "number" => x.v # 0

\* a || b
JsOr(a, b) == IF Truthy(a) THEN a ELSE b

JsonObject(snake, camel) == [t |-> "object", public_key |-> snake, publicKey |-> camel]
JsonSyntaxError == [t |-> "SyntaxError"]

\* JSON.parse(new TextDecoder().decode(message)) for the messages of the model
JsonParse(message) ==
  CASE message = <<1>> -> JsonObject(JsUndefined, JsString("K1"))
    [] message = <<2>> -> JsonObject(JsString("K1"), JsUndefined)
    [] message = <<3>> -> JsonObject(JsUndefined, JsString(""))
    [] message = <<4>> -> JsonObject(JsUndefined, JsUndefined)
    [] message = <<5>> -> JsonObject(JsNumber(7), JsUndefined)
    [] message = <<6>> -> JsonObject(JsUndefined, JsNull)
    [] message = <<7>> -> JsonObject(JsString(""), JsString("K2"))
    [] message = <<8>> -> JsNull
    [] message = <<9>> -> JsonObject(JsString("K2"), JsString("K1"))
    [] message = <<10>> -> JsonObject(JsUndefined, JsString("K2"))
    [] message = <<11>> -> JsonObject(JsString("K2"), JsUndefined)
    [] OTHER -> JsonSyntaxError

Messages == { <<m>> : m \in 1..12 }

(***************************************************************************)
(* Local storage and the session store.                                    *)
(***************************************************************************)
NoItem == [kind |-> "none"]
Unparsable == [kind |-> "unparsable"]    \* a value JSON.parse rejects

SessionRecord(sessionId, publicKey, privateKey, created, expiresAt) ==
  [kind |-> "session", sessionId |-> sessionId, publicKey |-> publicKey,
   privateKey |-> privateKey, created |-> created, expiresAt |-> expiresAt]

EmptyStorage ==
  [wordmint_mobile_session |-> NoItem,
   wordmint_pending_connection |-> FALSE,
   wordmint_wallet |-> "",
   wordmint_wallet_preference |-> "",
   wordmint_intentional_disconnect |-> FALSE]

\* generateEphemeralKeypair: both halves in base64
generateEphemeralKeypair(k) ==
  [publicKey |-> arrayBufferToBase64(naclBoxKeyPair(k).publicKey),
   privateKey |-> arrayBufferToBase64(naclBoxKeyPair(k).secretKey)]

\* createMobileWalletSession: Date.now() is read three times, at t0 <= t1 <= t2
createMobileWalletSession(t0, t1, t2, r, k) ==
  SessionRecord(<<t0, r>>,
                generateEphemeralKeypair(k).publicKey,
                generateEphemeralKeypair(k).privateKey,
                t1,
                t2 + SessionLifetime)

\* a store that keeps the record already there
setSessionItemUnlessPresent(ls, session) ==
  IF ls.wordmint_mobile_session.kind = "none"
  THEN [ls EXCEPT !.wordmint_mobile_session = session]
  ELSE ls

\* localStorage.setItem('wordmint_mobile_session', JSON.stringify(session))
setSessionItem(ls, session) == [ls EXCEPT !.wordmint_mobile_session = session]

clearMobileWalletSession(ls) ==
  [ls EXCEPT !.wordmint_mobile_session = NoItem,
             !.wordmint_pending_connection = FALSE]

clearPendingMobileConnection(ls) ==
  [ls EXCEPT !.wordmint_pending_connection = FALSE]

SessionExpired(session, t) == t > session.expiresAt

\* an exception leaving getMobileWalletSession
SessionThrow == [kind |-> "throw"]

\* getMobileWalletSession without the try/catch around JSON.parse
getSessionThrowingOnCorruption(ls, t) ==
  LET sessionData == ls.wordmint_mobile_session
  IN IF sessionData.kind = "none" THEN [session |-> NoItem, ls |-> ls]
     ELSE IF sessionData.kind = "unparsable" THEN [session |-> SessionThrow, ls |-> ls]
     ELSE IF SessionExpired(sessionData, t)
          THEN [session |-> NoItem, ls |-> clearMobileWalletSession(ls)]
     ELSE [session |-> sessionData, ls |-> ls]

\* getMobileWalletSession: the session returned (NoItem for null) and the storage left
getMobileWalletSession(ls, t) ==
  LET sessionData == ls.wordmint_mobile_session
  IN IF sessionData.kind = "none" THEN [session |-> NoItem, ls |-> ls]
     ELSE IF sessionData.kind = "unparsable" THEN [session |-> NoItem, ls |-> ls]
     ELSE IF SessionExpired(sessionData, t)
          THEN [session |-> NoItem, ls |-> clearMobileWalletSession(ls)]
     ELSE [session |-> sessionData, ls |-> ls]

(***************************************************************************)
(* The page URL: a function from the query parameters present to their     *)
(* values (URLSearchParams).                                               *)
(***************************************************************************)
Has(urlParams, name) == name \in DOMAIN urlParams

\* urlParams.get(name) of a text parameter; null and "" are both falsy
GetText(urlParams, name) == IF Has(urlParams, name) THEN urlParams[name] ELSE <<>>

\* urlParams.get(name) of a string parameter; null and "" are both falsy
GetString(urlParams, name) == IF Has(urlParams, name) THEN urlParams[name] ELSE ""

Without(urlParams, names) == [n \in (DOMAIN urlParams) \ names |-> urlParams[n]]

isMobileWalletReturn(urlParams) ==
  \/ Has(urlParams, "mobile_return")
  \/ Has(urlParams, "phantom_encryption_public_key")
  \/ Has(urlParams, "solflare_encryption_public_key")

paramsToRemove ==
  {"mobile_return", "session", "phantom_encryption_public_key",
   "solflare_encryption_public_key", "nonce", "data", "auth_token",
   "wallet_uri_base", "errorCode", "errorMessage"}

\* cleanMobileWalletReturnUrl that knows the Phantom success fields only
cleanPhantomFieldsOnly(urlParams) ==
  Without(urlParams, {"mobile_return", "session", "phantom_encryption_public_key",
                      "nonce", "data"})

cleanMobileWalletReturnUrl(urlParams) == Without(urlParams, paramsToRemove)

(***************************************************************************)
(* Response decryptor and return-channel parser.                           *)
(***************************************************************************)
ResultNull == [kind |-> "null"]
ResultThrow(message) == [kind |-> "throw", message |-> message]
ResultOk(publicKey, authToken, walletUriBase) ==
  [kind |-> "ok", publicKey |-> publicKey, authToken |-> authToken,
   walletUriBase |-> walletUriBase]

\* decryptMobileWalletResponse that goes on with the unauthenticated leading
\* byte when nacl.box.open returns null
decryptTrustingUnauthenticated(encryptedData, nonce, walletPublicKey, sessionPrivateKey) ==
  IF ~(Base58Valid(encryptedData) /\ Base58Valid(nonce) /\ Base58Valid(walletPublicKey))
  THEN ResultThrow("Non-base58 character")
  ELSE
    LET opened == naclBoxOpen(bs58decode(encryptedData), bs58decode(nonce),
                              bs58decode(walletPublicKey),
                              base64ToArrayBuffer(sessionPrivateKey))
        decryptedMessage == IF opened = NoBytes
                            THEN SubSeq(bs58decode(encryptedData), 1, 1)
                            ELSE opened
        response == JsonParse(decryptedMessage)
    IN IF response.t # "object"
       THEN ResultThrow("Failed to parse decrypted message")
       ELSE LET userPublicKey == JsOr(response.public_key, response.publicKey)
            IN IF userPublicKey.t = "string"
               THEN [kind |-> "ok", publicKey |-> userPublicKey.v]
               ELSE ResultThrow("Failed to parse decrypted message")

\* decryptMobileWalletResponse that reads response.publicKey only
decryptCamelCaseOnly(encryptedData, nonce, walletPublicKey, sessionPrivateKey) ==
  IF ~(Base58Valid(encryptedData) /\ Base58Valid(nonce) /\ Base58Valid(walletPublicKey))
  THEN ResultThrow("Non-base58 character")
  ELSE
    LET decryptedMessage == naclBoxOpen(bs58decode(encryptedData), bs58decode(nonce),
                                        bs58decode(walletPublicKey),
                                        base64ToArrayBuffer(sessionPrivateKey))
    IN IF decryptedMessage = NoBytes
       THEN ResultThrow("Failed to decrypt response: Invalid key or nonce.")
       ELSE LET response == JsonParse(decryptedMessage)
            IN IF response.t # "object"
               THEN ResultThrow("Failed to parse decrypted message")
               ELSE IF response.publicKey.t = "string"
               THEN [kind |-> "ok", publicKey |-> response.publicKey.v]
               ELSE ResultThrow("Failed to parse decrypted message")

\* decryptMobileWalletResponse that reads response.public_key only
decryptSnakeCaseOnly(encryptedData, nonce, walletPublicKey, sessionPrivateKey) ==
  IF ~(Base58Valid(encryptedData) /\ Base58Valid(nonce) /\ Base58Valid(walletPublicKey))
  THEN ResultThrow("Non-base58 character")
  ELSE
    LET decryptedMessage == naclBoxOpen(bs58decode(encryptedData), bs58decode(nonce),
                                        bs58decode(walletPublicKey),
                                        base64ToArrayBuffer(sessionPrivateKey))
    IN IF decryptedMessage = NoBytes
       THEN ResultThrow("Failed to decrypt response: Invalid key or nonce.")
       ELSE LET response == JsonParse(decryptedMessage)
            IN IF response.t # "object"
               THEN ResultThrow("Failed to parse decrypted message")
               ELSE IF response.public_key.t = "string"
               THEN [kind |-> "ok", publicKey |-> response.public_key.v]
               ELSE ResultThrow("Failed to parse decrypted message")

\* decryptMobileWalletResponse: {publicKey} or a thrown Error
decryptMobileWalletResponse(encryptedData, nonce, walletPublicKey, sessionPrivateKey) ==
  IF ~(Base58Valid(encryptedData) /\ Base58Valid(nonce) /\ Base58Valid(walletPublicKey))
  THEN ResultThrow("Non-base58 character")
  ELSE IF ~Base64Valid(sessionPrivateKey)
  THEN ResultThrow("InvalidCharacterError")
  ELSE
    LET decryptedMessage == naclBoxOpen(bs58decode(encryptedData),
                                        bs58decode(nonce),
                                        bs58decode(walletPublicKey),
                                        base64ToArrayBuffer(sessionPrivateKey))
    IN IF decryptedMessage = NoBytes
       THEN ResultThrow("Failed to decrypt response: Invalid key or nonce.")
       ELSE
         LET response == JsonParse(decryptedMessage)
         IN IF response.t # "object"
            THEN ResultThrow("Failed to parse decrypted message")
            ELSE
              LET userPublicKey == JsOr(response.public_key, response.publicKey)
              IN IF userPublicKey.t = "string"
                 THEN [kind |-> "ok", publicKey |-> userPublicKey.v]
                 ELSE ResultThrow("Failed to parse decrypted message")

\* x || undefined of a string parameter
OrUndefined(x) == IF x = "" THEN JsUndefined ELSE JsString(x)

\* the success path throwing where a required field is missing
ParseThrowingOnMissingField(urlParams, ls, t) ==
  [result |-> ResultThrow("Missing required mobile wallet response parameters"),
   ls |-> ls, decrypted |-> FALSE]

\* what parseMobileWalletResponse does when the URL has no errorCode
ParseSuccessFields(urlParams, ls, t) ==
    LET phantomKey == GetText(urlParams, "phantom_encryption_public_key")
        walletPublicKeyBase58 ==
          IF phantomKey = <<>>
          THEN GetText(urlParams, "solflare_encryption_public_key")
          ELSE phantomKey
        data == GetText(urlParams, "data")
        nonce == GetText(urlParams, "nonce")
        sessionId == GetText(urlParams, "session")
    IN IF walletPublicKeyBase58 = <<>> \/ data = <<>> \/ nonce = <<>> \/ sessionId = <<>>
       THEN [result |-> ResultNull, ls |-> ls, decrypted |-> FALSE]
       ELSE
         LET got == getMobileWalletSession(ls, t)
         IN \* the call is outside every try block: what it throws, the parser throws
            IF got.session.kind = "throw"
            THEN [result |-> ResultThrow("Unexpected token in JSON"),
                  ls |-> got.ls, decrypted |-> FALSE]
            ELSE
            IF got.session.kind = "none" \/ got.session.sessionId # sessionId
            THEN [result |-> ResultNull, ls |-> got.ls, decrypted |-> FALSE]
            ELSE
              LET walletAuthResponse ==
                    decryptMobileWalletResponse(data, nonce, walletPublicKeyBase58,
                                                got.session.privateKey)
              IN IF walletAuthResponse.kind = "ok"
                 THEN [result |-> ResultOk(walletAuthResponse.publicKey,
                                           OrUndefined(GetString(urlParams, "auth_token")),
                                           OrUndefined(GetString(urlParams, "wallet_uri_base"))),
                       ls |-> got.ls, decrypted |-> TRUE]
                 ELSE [result |-> ResultThrow("Failed to decrypt wallet response. Please try again or check console for details."),
                       ls |-> got.ls, decrypted |-> TRUE]

\* parseMobileWalletResponse that throws on every errorCode, 4001 included
parseThrowingOnDecline(urlParams, ls, t) ==
  IF Has(urlParams, "errorCode")
  THEN [result |-> ResultThrow("Wallet error"), ls |-> ls, decrypted |-> FALSE]
  ELSE ParseSuccessFields(urlParams, ls, t)

\* parseMobileWalletResponse that never reads errorMessage
parseDroppingWalletMessage(urlParams, ls, t) ==
  IF Has(urlParams, "errorCode") THEN
    IF urlParams["errorCode"] = "4001"
    THEN [result |-> ResultNull, ls |-> ls, decrypted |-> FALSE]
    ELSE [result |-> ResultThrow("Wallet error: Unknown error"),
          ls |-> ls, decrypted |-> FALSE]
  ELSE ParseSuccessFields(urlParams, ls, t)

\* parseMobileWalletResponse: the result, the storage left, and whether the
\* decryptor was called
parseMobileWalletResponse(urlParams, ls, t) ==
  IF Has(urlParams, "errorCode") THEN
    IF urlParams["errorCode"] = "4001"
    THEN [result |-> ResultNull, ls |-> ls, decrypted |-> FALSE]
    ELSE [result |-> ResultThrow(IF GetString(urlParams, "errorMessage") = ""
                                 THEN "Wallet error: Unknown error"
                                 ELSE "Wallet error: " \o urlParams["errorMessage"]),
          ls |-> ls, decrypted |-> FALSE]
  ELSE ParseSuccessFields(urlParams, ls, t)

(***************************************************************************)
(* Deep-link builder.                                                      *)
(***************************************************************************)
AppUrl == "https://wordmint.app/"

redirectUrl(appUrl, session) ==
  [appUrl |-> appUrl,
   query |-> [mobile_return |-> "true", session |-> session.sessionId]]

\* the deep-link parameters with the private key in place of the public key
DeepLinkParamsWithPrivateKey(config, session) ==
  [app_url |-> config.appUrl,
   redirect_link |-> redirectUrl(config.appUrl, session),
   cluster |-> "devnet",
   ref |-> "wordmint",
   dapp_encryption_public_key |-> bs58encode(base64ToArrayBuffer(session.privateKey)),
   icon_url |-> config.iconUrl]

\* the deep-link parameters with the stored base64 text passed on undecoded
DeepLinkParamsBase64Text(config, session) ==
  [app_url |-> config.appUrl,
   redirect_link |-> redirectUrl(config.appUrl, session),
   cluster |-> "devnet",
   ref |-> "wordmint",
   dapp_encryption_public_key |-> session.publicKey,
   icon_url |-> config.iconUrl]

DeepLinkParams(config, session) ==
  [app_url |-> config.appUrl,
   redirect_link |-> redirectUrl(config.appUrl, session),
   cluster |-> "devnet",
   ref |-> "wordmint",
   dapp_encryption_public_key |-> bs58encode(base64ToArrayBuffer(session.publicKey)),
   icon_url |-> config.iconUrl]

generatePhantomDeepLink(config, session) ==
  [endpoint |-> "https://phantom.app/ul/v1/connect",
   params |-> DeepLinkParams(config, session)]

generateSolflareDeepLink(config, session) ==
  [endpoint |-> "https://solflare.com/ul/v1/connect",
   params |-> DeepLinkParams(config, session)]

generateWalletDeepLink(walletApp, session) ==
  LET config == [walletApp |-> walletApp, appUrl |-> AppUrl, appName |-> "WordMint",
                 iconUrl |-> AppUrl \o "/favicon.ico"]
  IN IF walletApp = "phantom"
     THEN generatePhantomDeepLink(config, session)
     ELSE generateSolflareDeepLink(config, session)

NoDeepLink == [endpoint |-> "none"]

(***************************************************************************)
(* State.                                                                  *)
(***************************************************************************)
VARIABLES
  now,              \* Date.now(), in minutes
  ticks,            \* number of clock advances so far
  platform,         \* the browser: "mobile-external", "mobile-inapp", "desktop"
  ls,               \* localStorage of that browser
  phase,            \* "page": the app page is loaded; "away": the user is in the wallet
                    \* app; "loading": the browser is about to load the app
  sessionsCreated,  \* number of createMobileWalletSession calls so far
  url,              \* query parameters of window.location
  loadUrl,          \* query parameters the page was loaded with
  walletState,      \* useWallet: WalletInfo.state
  hookMounted,      \* the useWallet mount effect has run
  appMounted,       \* the App mount effect has run
  savedWalletLoaded, \* the saved wallet App's mount effect passed to loadPlayerData
  mcState,          \* MobileWalletConnect: "unmounted" or its MobileConnectionState
  errorMessage,     \* MobileWalletConnect: errorMessage
  onConnectedCalls, \* arguments of the onConnected calls of this page load
  onErrorCalls,     \* arguments of the onError calls of this page load
  cleanCalls,       \* number of cleanMobileWalletReturnUrl calls of this page load
  parseCalls,       \* number of parseMobileWalletResponse calls of this page load
  decryptCalls,     \* number of decryptMobileWalletResponse calls of this page load
  lastResult,       \* outcome of the last parseMobileWalletResponse call
  deepLink,         \* the deep link the page last navigated to
  buffer,           \* encoders: the bytes given to an encoder
  codec,            \* encoders: "idle", or the pair in use, "base64" or "base58"
  text,             \* encoders: the text the encoder returned
  decoded,          \* encoders: the bytes the decoder returned, <<256>> before it ran
  loadedHref,       \* URL cleaning: the URL the document was loaded with
  href,             \* URL cleaning: window.location.href, in parts
  entries,          \* URL cleaning: the URLs of the session history, oldest first
  documentLoads,    \* URL cleaning: number of documents the browser has loaded
  cleanRuns,        \* URL cleaning: cleanMobileWalletReturnUrl calls so far
  device,           \* useWallet: the kind of browser the page runs in
  trusted,          \* useWallet: the wallet holds an approval of this app
  hookStorage,      \* useWallet: the localStorage items the hook and App share
  mounted,          \* useWallet: the component using the hook is mounted
  mounts,           \* useWallet: number of mounts so far
  walletInfo,       \* useWallet: walletInfo
  provider,         \* useWallet: provider is non-null
  isDisconnecting,  \* useWallet: isDisconnecting
  pending,          \* useWallet: the promises and timers not yet settled
  trace,            \* useWallet: the states walletInfo took since handleConnect began
  autoConnects,     \* useWallet: tryAutoConnect calls of the current mount
  kvPlayer,         \* server: the player:<wallet> record of the key-value store
  kvClaims,         \* server: the claim:<wallet>:<id> keys of the key-value store
  kvMints,          \* server: the mint:<wallet>:<id> keys of the key-value store
  minted,           \* chain: WMINT minted to the wallet so far
  claimMints,       \* chain: mint transactions of /token/claim, per claim key
  earned,           \* server: score the stats endpoint has credited so far
  requests,         \* server: the requests received, each with its position
  tabs,             \* client: per browser tab, playerData and the handler in progress
  answers,          \* client: number of words answered so far
  claims,           \* client: number of times Claim Rewards was clicked
  maxRetries,       \* retryRpcCall: the parameter maxRetries
  delayMs,          \* retryRpcCall: the parameter delayMs
  rpcPc,            \* retryRpcCall: where the call stands
  loopIndex,        \* retryRpcCall: the loop counter i
  lastError,        \* retryRpcCall: the local lastError
  calls,            \* retryRpcCall: number of times fn was called
  attempts,         \* retryRpcCall: how each call of fn settled, in order
  sleeps,           \* retryRpcCall: the delays passed to setTimeout, in order
  settled           \* retryRpcCall: how the returned promise settled

vars == <<now, ticks, platform, ls, phase, sessionsCreated, url, loadUrl, walletState, hookMounted,
          appMounted, savedWalletLoaded,
          mcState, errorMessage, onConnectedCalls, onErrorCalls, cleanCalls,
          parseCalls, decryptCalls, lastResult, deepLink,
          buffer, codec, text, decoded,
          loadedHref, href, entries, documentLoads, cleanRuns,
          device, trusted, hookStorage, mounted, mounts, walletInfo, provider,
          isDisconnecting, pending, trace, autoConnects,
          kvPlayer, kvClaims, kvMints, minted, claimMints, earned, requests, tabs,
          answers, claims,
          maxRetries, delayMs, rpcPc, loopIndex, lastError, calls, attempts, sleeps, settled>>

codecVars == <<buffer, codec, text, decoded>>

hrefVars == <<loadedHref, href, entries, documentLoads, cleanRuns>>

hookVars == <<device, trusted, hookStorage, mounted, mounts, walletInfo, provider,
              isDisconnecting, pending, trace, autoConnects>>

serverVars == <<kvPlayer, kvClaims, kvMints, minted, claimMints, earned, requests, tabs,
                answers, claims>>

retryVars == <<maxRetries, delayMs, rpcPc, loopIndex, lastError, calls, attempts, sleeps, settled>>

\* everything outside the handshake
asideVars == <<codecVars, hrefVars, hookVars, serverVars, retryVars>>

Platforms == {"mobile-external", "mobile-inapp", "desktop"}

\* navigator.userAgent matches the mobile patterns
isMobileDevice(pf) == pf \in {"mobile-external", "mobile-inapp"}

\* a wallet provider is injected into window
getMobileWalletProvider(pf) == pf = "mobile-inapp"

NoResult == [kind |-> "none"]
NoUrl == [n \in {} |-> ""]

PageState == <<walletState, hookMounted, appMounted, savedWalletLoaded, mcState, errorMessage, onConnectedCalls,
               onErrorCalls, cleanCalls, parseCalls, decryptCalls, lastResult>>

\* the handshake before anything has happened
HandshakeInit ==
  /\ now = 0
  /\ ticks = 0
  /\ ls = EmptyStorage
  /\ phase = "page"
  /\ sessionsCreated = 0
  /\ url = NoUrl
  /\ loadUrl = NoUrl
  /\ walletState = "detected"
  /\ hookMounted = FALSE
  /\ appMounted = FALSE
  /\ savedWalletLoaded = ""
  /\ mcState = "unmounted"
  /\ errorMessage = ""
  /\ onConnectedCalls = <<>>
  /\ onErrorCalls = <<>>
  /\ cleanCalls = 0
  /\ parseCalls = 0
  /\ decryptCalls = 0
  /\ lastResult = NoResult
  /\ deepLink = NoDeepLink

\* no encoder is in use
CodecIdle ==
  /\ buffer = <<>>
  /\ codec = "idle"
  /\ text = <<>>
  /\ decoded = NoBytes

NoHref == [origin |-> "", pathname |-> "", search |-> <<>>, hash |-> ""]

\* no URL is being cleaned
HrefIdle ==
  /\ loadedHref = NoHref
  /\ href = NoHref
  /\ entries = <<>>
  /\ documentLoads = 0
  /\ cleanRuns = 0

\* useState of walletInfo: the initial value; "" stands for null
InitialWalletInfo == [state |-> "detected", publicKey |-> "", error |-> ""]

\* no useWallet hook is in use
HookIdle ==
  /\ device = "desktop"
  /\ trusted = FALSE
  /\ hookStorage = [wordmint_intentional_disconnect |-> FALSE, wordmint_wallet |-> ""]
  /\ mounted = FALSE
  /\ mounts = 0
  /\ walletInfo = InitialWalletInfo
  /\ provider = FALSE
  /\ isDisconnecting = FALSE
  /\ pending = {}
  /\ trace = <<>>
  /\ autoConnects = 0

\* no player record in the store
NoPlayer == [exists |-> FALSE, score |-> 0, totalWmintEarned |-> 0, level |-> 0,
             streak |-> 0, gamesPlayed |-> 0]

\* the promise of retryRpcCall before it settles
NotSettled == [kind |-> "pending", value |-> ""]

\* retryRpcCall has not been called
RetryIdle ==
  /\ maxRetries = 0
  /\ delayMs = 0
  /\ rpcPc = "idle"
  /\ loopIndex = 0
  /\ lastError = "undefined"
  /\ calls = 0
  /\ attempts = <<>>
  /\ sleeps = <<>>
  /\ settled = NotSettled

\* the server has received nothing and no tab is open
ServerIdle ==
  /\ kvPlayer = NoPlayer
  /\ kvClaims = {}
  /\ kvMints = {}
  /\ minted = 0
  /\ claimMints = <<>>
  /\ earned = 0
  /\ requests = <<>>
  /\ tabs = <<>>
  /\ answers = 0
  /\ claims = 0

Init ==
  /\ HandshakeInit
  /\ platform \in Platforms
  /\ CodecIdle
  /\ HrefIdle
  /\ HookIdle
  /\ ServerIdle
  /\ RetryIdle

(***************************************************************************)
(* The clock.                                                              *)
(***************************************************************************)
\* a minute, or a whole session lifetime
TickSteps == {1, SessionLifetime}

\* Only expiresAt of a stored session is ever compared with the clock, so the
\* clock is let run only while something is stored; the handlers of a loaded
\* page run in milliseconds, so minutes pass between page loads.
Tick ==
  /\ ticks < MaxTicks
  /\ ls.wordmint_mobile_session.kind = "session"
  /\ phase # "page"
  /\ \E d \in TickSteps : now' = now + d
  /\ ticks' = ticks + 1
  /\ UNCHANGED <<platform, ls, phase, sessionsCreated, url, loadUrl, PageState, deepLink>>
  /\ UNCHANGED asideVars

(***************************************************************************)
(* Return URLs: what a wallet, or anyone who has seen the deep link, can   *)
(* send the browser back with.                                             *)
(***************************************************************************)
WalletKeyPair == naclBoxKeyPair(200)   \* the wallet's ephemeral key pair
NonceBytes == Repeat(9, NonceLen)
ForeignSessionId == <<0, 0>>   \* an id createMobileWalletSession never draws

FlipByte(b) == IF b % 2 = 0 THEN b + 1 ELSE b - 1
FlipAt(bytes, i) == [bytes EXCEPT ![i] = FlipByte(bytes[i])]

\* what the deep link, or failing that the stored session, tells the wallet
Target ==
  IF deepLink.endpoint # "none"
  THEN [sessionId |-> deepLink.params.redirect_link.query.session,
        dappKey |-> bs58decode(deepLink.params.dapp_encryption_public_key),
        keyParam |-> IF deepLink.endpoint = "https://phantom.app/ul/v1/connect"
                     THEN "phantom_encryption_public_key"
                     ELSE "solflare_encryption_public_key"]
  ELSE [sessionId |-> ForeignSessionId,
        dappKey |-> naclBoxKeyPair(0).publicKey,
        keyParam |-> "phantom_encryption_public_key"]

\* the return URL of a wallet that approves and encrypts message to the dapp key
ApprovalUrl(target, message) ==
  LET wallet == WalletKeyPair
  IN [n \in {"mobile_return", "session", target.keyParam, "data", "nonce"} |->
        CASE n = "mobile_return" -> "true"
          [] n = "session" -> target.sessionId
          [] n = target.keyParam -> bs58encode(wallet.publicKey)
          [] n = "data" -> bs58encode(naclBox(message, NonceBytes, target.dappKey,
                                              wallet.secretKey))
          [] n = "nonce" -> bs58encode(NonceBytes)]

Variations ==
  {"exact", "no-marker", "no-session", "no-key", "no-data", "no-nonce",
   "wrong-session", "flip-message", "flip-authenticator", "flip-nonce", "flip-key",
   "other-recipient", "not-base58", "empty-data", "tokens", "other-param"}

Vary(u, target, v) ==
  CASE v = "exact" -> u
    [] v = "no-marker" -> Without(u, {"mobile_return"})
    [] v = "no-session" -> Without(u, {"session"})
    [] v = "no-key" -> Without(u, {target.keyParam})
    [] v = "no-data" -> Without(u, {"data"})
    [] v = "no-nonce" -> Without(u, {"nonce"})
    [] v = "wrong-session" -> [u EXCEPT !["session"] = ForeignSessionId]
    [] v = "flip-message" ->
         [u EXCEPT !["data"] = bs58encode(FlipAt(bs58decode(u["data"]), 1))]
    [] v = "flip-authenticator" ->
         [u EXCEPT !["data"] = bs58encode(FlipAt(bs58decode(u["data"]), 2))]
    [] v = "flip-nonce" ->
         [u EXCEPT !["nonce"] = bs58encode(FlipAt(bs58decode(u["nonce"]), 1))]
    [] v = "flip-key" ->
         [u EXCEPT ![target.keyParam] =
            bs58encode(FlipAt(bs58decode(u[target.keyParam]), 1))]
    [] v = "other-recipient" ->
         [u EXCEPT !["data"] =
            bs58encode(naclBox(SubSeq(bs58decode(u["data"]), 1, 1), NonceBytes,
                               naclBoxKeyPair(MaxSessions).publicKey,
                               WalletKeyPair.secretKey))]
    [] v = "not-base58" -> [u EXCEPT !["data"] = <<58>>]
    [] v = "empty-data" -> [u EXCEPT !["data"] = <<>>]
    [] v = "tokens" -> u @@ [n \in {"auth_token", "wallet_uri_base"} |->
                               IF n = "auth_token" THEN "tok" ELSE "uri"]
    [] v = "other-param" -> u @@ [n \in {"utm"} |-> "x"]

Declines == {"4001", "4001+message"}
Errors == {"4900", "4900+message"}

WithError(u, e) ==
  CASE e = "4001" -> u @@ [n \in {"errorCode"} |-> "4001"]
    [] e = "4001+message" ->
         u @@ [n \in {"errorCode", "errorMessage"} |->
                 IF n = "errorCode" THEN "4001" ELSE "User rejected the request."]
    [] e = "4900" -> u @@ [n \in {"errorCode"} |-> "4900"]
    [] e = "4900+message" ->
         u @@ [n \in {"errorCode", "errorMessage"} |->
                 IF n = "errorCode" THEN "4900" ELSE "Wallet is locked."]

\* the redirect link as the deep link carries it, with nothing added
RedirectUrl(target) ==
  [n \in {"mobile_return", "session"} |->
     IF n = "mobile_return" THEN "true" ELSE target.sessionId]

DeclineShapes ==
  {"exact", "no-marker", "no-session", "no-key", "no-data", "no-nonce", "wrong-session"}

\* The clock starts at 0 and runs only once a session is stored, so the first
\* createMobileWalletSession call draws this id and this key pair.
FirstSessionId == <<0, 1>>

\* what the first deep link told the wallet, once a later session exists
StaleTargets ==
  IF sessionsCreated >= 2
  THEN { [sessionId |-> FirstSessionId,
          dappKey |-> naclBoxKeyPair(0).publicKey,
          keyParam |-> k] :
           k \in {"phantom_encryption_public_key", "solflare_encryption_public_key"} }
  ELSE {}

\* the URLs a page load can carry in the current state
LoadableUrls ==
  {NoUrl, [n \in {"utm"} |-> "x"]}
  \cup { ApprovalUrl(Target, m) : m \in Messages }
  \cup { Vary(ApprovalUrl(Target, <<1>>), Target, v) : v \in Variations }
  \cup { WithError(Vary(ApprovalUrl(Target, <<1>>), Target, v), e) :
           v \in DeclineShapes, e \in Declines }
  \cup { WithError(u, e) : u \in {NoUrl, RedirectUrl(Target)}, e \in Declines \cup Errors }
  \cup { WithError(ApprovalUrl(Target, <<1>>), e) : e \in Errors }
  \cup { ApprovalUrl(target, <<1>>) : target \in StaleTargets }

(***************************************************************************)
(* Navigation.  The user reloads the page or opens another URL of the app: *)
(* the page is torn down and all its in-memory state is gone, localStorage *)
(* stays.  The browser then loads the app with some URL.                   *)
(***************************************************************************)
FreshPage ==
  /\ walletState' = "detected"
  /\ hookMounted' = FALSE
  /\ appMounted' = FALSE
  /\ savedWalletLoaded' = ""
  /\ mcState' = "unmounted"
  /\ errorMessage' = ""
  /\ onConnectedCalls' = <<>>
  /\ onErrorCalls' = <<>>
  /\ cleanCalls' = 0
  /\ parseCalls' = 0
  /\ decryptCalls' = 0
  /\ lastResult' = NoResult

Navigate ==
  /\ phase = "page"
  /\ mcState # "initiating-deep-link"
  /\ phase' = "loading"
  /\ url' = NoUrl
  /\ loadUrl' = NoUrl
  /\ FreshPage
  /\ UNCHANGED <<now, ticks, platform, ls, sessionsCreated, deepLink>>
  /\ UNCHANGED asideVars

PageLoad ==
  /\ phase \in {"loading", "away"}
  /\ \E u \in LoadableUrls :
       /\ url' = u
       /\ loadUrl' = u
  /\ phase' = "page"
  /\ FreshPage
  /\ UNCHANGED <<now, ticks, platform, ls, sessionsCreated, deepLink>>
  /\ UNCHANGED asideVars

\* Something other than the protocol (another script of the origin, the user,
\* an interrupted write) leaves a value JSON.parse rejects under the session key.
CorruptStorage ==
  /\ phase # "page"
  /\ ls.wordmint_mobile_session # Unparsable
  /\ ls' = [ls EXCEPT !.wordmint_mobile_session = Unparsable]
  /\ UNCHANGED <<now, ticks, platform, phase, sessionsCreated, url, loadUrl, PageState,
                 deepLink>>
  /\ UNCHANGED asideVars

(***************************************************************************)
(* useWallet: the mount effect.                                            *)
(***************************************************************************)
UseWalletMount ==
  /\ phase = "page"
  /\ ~hookMounted
  /\ hookMounted' = TRUE
  /\ IF ls.wordmint_intentional_disconnect
     THEN /\ ls' = [ls EXCEPT !.wordmint_intentional_disconnect = FALSE]
          /\ walletState' = "detected"
     ELSE /\ ls' = ls
          /\ walletState' = IF getMobileWalletProvider(platform)
                            THEN "detected" ELSE "not-installed"
  /\ UNCHANGED <<now, ticks, platform, phase, sessionsCreated, url, loadUrl, mcState,
                 appMounted, savedWalletLoaded, errorMessage,
                 onConnectedCalls, onErrorCalls, cleanCalls, parseCalls, decryptCalls,
                 lastResult, deepLink>>
  /\ UNCHANGED asideVars

(***************************************************************************)
(* App: the mount effect.  React runs the effects of a commit children     *)
(* first, so it follows the effects of LandingPage (useWallet among them)  *)
(* and precedes the mount of MobileWalletConnect, which WalletButton       *)
(* renders only in a later commit.  What loadPlayerData does once its      *)
(* fetch returns is not followed.                                          *)
(***************************************************************************)
AppMount ==
  /\ phase = "page"
  /\ hookMounted
  /\ ~appMounted
  /\ appMounted' = TRUE
  /\ savedWalletLoaded' = ls.wordmint_wallet
  /\ UNCHANGED <<now, ticks, platform, ls, phase, sessionsCreated, url, loadUrl,
                 walletState, hookMounted, mcState, errorMessage, onConnectedCalls,
                 onErrorCalls, cleanCalls, parseCalls, decryptCalls, lastResult,
                 deepLink>>
  /\ UNCHANGED asideVars

(***************************************************************************)
(* MobileWalletConnect.                                                    *)
(***************************************************************************)
\* handleMobileReturn taking the null answer of the parser for a failure
handleReturnDeclineAsError(shown) ==
  LET parsed == parseMobileWalletResponse(url, ls, now)
      response == IF parsed.result.kind = "null"
                  THEN ResultThrow("Failed to process wallet response")
                  ELSE parsed.result
  IN /\ parseCalls' = parseCalls + 1
     /\ decryptCalls' = decryptCalls + (IF parsed.decrypted THEN 1 ELSE 0)
     /\ lastResult' = parsed.result
     /\ url' = cleanMobileWalletReturnUrl(url)
     /\ cleanCalls' = cleanCalls + 1
     /\ IF response.kind = "ok"
        THEN /\ ls' = clearPendingMobileConnection(
                        [parsed.ls EXCEPT !.wordmint_wallet = response.publicKey])
             /\ mcState' = "connected"
             /\ onConnectedCalls' = Append(onConnectedCalls, response.publicKey)
             /\ errorMessage' = shown
             /\ UNCHANGED onErrorCalls
        ELSE /\ errorMessage' = response.message
             /\ ls' = clearPendingMobileConnection(parsed.ls)
             /\ mcState' = "error"
             /\ onErrorCalls' = Append(onErrorCalls, response.message)
             /\ UNCHANGED onConnectedCalls

\* handleMobileReturn; shown is the errorMessage state it is entered with
handleMobileReturn(shown) ==
  LET parsed == parseMobileWalletResponse(url, ls, now)
      response == parsed.result
  IN /\ parseCalls' = parseCalls + 1
     /\ decryptCalls' = decryptCalls + (IF parsed.decrypted THEN 1 ELSE 0)
     /\ lastResult' = response
     /\ url' = cleanMobileWalletReturnUrl(url)
     /\ cleanCalls' = cleanCalls + 1
     /\ CASE response.kind = "null" ->
               /\ ls' = clearPendingMobileConnection(parsed.ls)
               /\ mcState' = "rejected"
               /\ errorMessage' = shown
               /\ UNCHANGED <<onConnectedCalls, onErrorCalls>>
          [] response.kind = "ok" ->
               /\ ls' = clearPendingMobileConnection(
                          [parsed.ls EXCEPT !.wordmint_wallet = response.publicKey])
               /\ mcState' = "connected"
               /\ onConnectedCalls' = Append(onConnectedCalls, response.publicKey)
               /\ errorMessage' = shown
               /\ UNCHANGED onErrorCalls
          [] response.kind = "throw" ->
               /\ errorMessage' = response.message
               /\ ls' = clearPendingMobileConnection(parsed.ls)
               /\ mcState' = "error"
               /\ onErrorCalls' = Append(onErrorCalls, response.message)
               /\ UNCHANGED onConnectedCalls

\* initializeMobileWallet
initializeMobileWallet(shown) ==
  IF isMobileWalletReturn(url)
  THEN handleMobileReturn(shown)
  ELSE /\ mcState' = IF getMobileWalletProvider(platform)
                     THEN "in-app-ready" ELSE "external-browser"
       /\ errorMessage' = shown
       /\ UNCHANGED <<ls, url, onConnectedCalls, onErrorCalls, cleanCalls, parseCalls,
                      decryptCalls, lastResult>>

\* WalletButton renders MobileWalletConnect, whose mount effect initializes it
MountMobileWalletConnect ==
  /\ phase = "page"
  /\ hookMounted
  /\ walletState = "not-installed"
  /\ isMobileDevice(platform)
  /\ appMounted
  /\ mcState = "unmounted"
  /\ initializeMobileWallet(errorMessage)
  /\ UNCHANGED <<now, ticks, platform, phase, sessionsCreated, loadUrl, walletState,
                 hookMounted, appMounted, savedWalletLoaded, deepLink>>
  /\ UNCHANGED asideVars

\* retryConnection that clears the message and does not initialize again
RetryWithoutInitialize ==
  /\ phase = "page"
  /\ mcState \in {"rejected", "error"}
  /\ errorMessage' = ""
  /\ UNCHANGED <<now, ticks, platform, ls, phase, sessionsCreated, url, loadUrl,
                 walletState, hookMounted, appMounted, savedWalletLoaded, mcState,
                 onConnectedCalls, onErrorCalls, cleanCalls, parseCalls, decryptCalls,
                 lastResult, deepLink>>
  /\ UNCHANGED asideVars

\* retryConnection: the "Try Again" button of the rejected and error screens
RetryConnection ==
  /\ phase = "page"
  /\ mcState \in {"rejected", "error"}
  /\ initializeMobileWallet("")
  /\ UNCHANGED <<now, ticks, platform, phase, sessionsCreated, loadUrl, walletState,
                 hookMounted, appMounted, savedWalletLoaded, deepLink>>
  /\ UNCHANGED asideVars

\* connectViaDeepLink -> connectMobileViaDeepLink: the page navigates to the wallet
ConnectViaDeepLink ==
  /\ phase = "page"
  /\ mcState = "external-browser"
  /\ sessionsCreated < MaxSessions
  /\ sessionsCreated' = sessionsCreated + 1
  /\ \E walletApp \in {"phantom", "solflare"}, d \in {0, 1} :
       \* the random suffix and the key pair are fresh
       LET session == createMobileWalletSession(now, now, now + d,
                                                sessionsCreated + 1, sessionsCreated)
       IN /\ d = 1 => ticks < MaxTicks
          /\ now' = now + d
          /\ ticks' = ticks + d
          /\ ls' = [setSessionItem(ls, session)
                       EXCEPT !.wordmint_pending_connection = TRUE,
                              !.wordmint_wallet_preference = walletApp]
          /\ deepLink' = generateWalletDeepLink(walletApp, session)
  /\ mcState' = "initiating-deep-link"
  /\ UNCHANGED <<platform, phase, url, loadUrl, walletState, hookMounted, appMounted,
                 savedWalletLoaded, errorMessage,
                 onConnectedCalls, onErrorCalls, cleanCalls, parseCalls, decryptCalls,
                 lastResult>>
  /\ UNCHANGED asideVars

\* window.location.href = deepLink takes effect: the page is torn down and the
\* wallet app (or the wallet's web page) has the deep link
Unload ==
  /\ phase = "page"
  /\ mcState = "initiating-deep-link"
  /\ phase' = "away"
  /\ url' = NoUrl
  /\ loadUrl' = NoUrl
  /\ FreshPage
  /\ UNCHANGED <<now, ticks, platform, ls, sessionsCreated, deepLink>>
  /\ UNCHANGED asideVars

Next ==
  \/ Tick
  \/ Navigate
  \/ PageLoad
  \/ CorruptStorage
  \/ UseWalletMount
  \/ AppMount
  \/ MountMobileWalletConnect
  \/ RetryConnection
  \/ ConnectViaDeepLink
  \/ Unload

Spec == Init /\ [][Next]_vars

(***************************************************************************)
(* The encoder pairs on their own: some bytes are encoded, then the text   *)
(* is decoded.  The handshake stands still.                                *)
(***************************************************************************)
ByteSamples == {0, 1, 127, 255}

\* every sample sequence up to MaxLen, and the all-zero and all-0xFF sequences
\* of the lengths of a nonce, of a key, and up to 128
CodecInputs ==
  UNION { [1..n -> ByteSamples] : n \in 0..MaxLen }
  \cup { Repeat(b, n) : b \in {0, 255}, n \in {24, 32, 64, 128} }

CodecInit ==
  /\ HandshakeInit
  /\ platform = "desktop"
  /\ buffer \in CodecInputs
  /\ codec = "idle"
  /\ text = <<>>
  /\ decoded = NoBytes
  /\ HrefIdle
  /\ HookIdle
  /\ ServerIdle
  /\ RetryIdle

HandshakeVars ==
  <<now, ticks, platform, ls, phase, sessionsCreated, url, loadUrl, PageState, deepLink>>

\* everything outside the encoders
outsideCodec == <<HandshakeVars, hrefVars, hookVars, serverVars, retryVars>>

\* everything outside the URL cleaning
outsideClean == <<HandshakeVars, codecVars, hookVars, serverVars, retryVars>>

\* everything outside useWallet
outsideHook == <<HandshakeVars, codecVars, hrefVars, serverVars, retryVars>>

\* everything outside the server and its clients
outsideServer == <<HandshakeVars, codecVars, hrefVars, hookVars, retryVars>>

\* everything but retryRpcCall
outsideRetry == <<HandshakeVars, codecVars, hrefVars, hookVars, serverVars>>

EncodeBase64 ==
  /\ codec = "idle"
  /\ codec' = "base64"
  /\ text' = arrayBufferToBase64(buffer)
  /\ UNCHANGED <<buffer, decoded, outsideCodec>>

DecodeBase64 ==
  /\ codec = "base64"
  /\ decoded = NoBytes
  /\ Base64Valid(text)
  /\ decoded' = base64ToArrayBuffer(text)
  /\ UNCHANGED <<buffer, codec, text, outsideCodec>>

EncodeBase58 ==
  /\ codec = "idle"
  /\ codec' = "base58"
  /\ text' = bs58encode(buffer)
  /\ UNCHANGED <<buffer, decoded, outsideCodec>>

DecodeBase58 ==
  /\ codec = "base58"
  /\ decoded = NoBytes
  /\ Base58Valid(text)
  /\ decoded' = bs58decode(text)
  /\ UNCHANGED <<buffer, codec, text, outsideCodec>>

CodecNext ==
  \/ EncodeBase64
  \/ DecodeBase64
  \/ EncodeBase58
  \/ DecodeBase58

CodecSpec == CodecInit /\ [][CodecNext]_vars

\* A user who is shown the retry button and stays on the page presses it.
LiveSpec == Spec /\ WF_vars(RetryConnection)

(***************************************************************************)
(* Properties.                                                             *)
(***************************************************************************)
\* handleMobileReturn has run on this page and nothing has run after it
ReturnProcessed ==
  /\ phase = "page"
  /\ mcState \in {"connected", "rejected", "error"}
  /\ parseCalls = 1

\* the wallet key a return URL supplies, under the Phantom or the Solflare name
SuppliedKey(u) ==
  IF GetText(u, "phantom_encryption_public_key") # <<>>
  THEN GetText(u, "phantom_encryption_public_key")
  ELSE GetText(u, "solflare_encryption_public_key")

\* the four success fields are all present and non-empty
AllFields(u) ==
  /\ SuppliedKey(u) # <<>>
  /\ GetText(u, "data") # <<>>
  /\ GetText(u, "nonce") # <<>>
  /\ GetText(u, "session") # <<>>

SuccessShaped(u) == AllFields(u) /\ ~Has(u, "errorCode")

\* MobileWalletConnect is about to be mounted on a success-shaped return
AboutToLookUp ==
  /\ phase = "page"
  /\ hookMounted
  /\ appMounted
  /\ walletState = "not-installed"
  /\ isMobileDevice(platform)
  /\ mcState = "unmounted"
  /\ SuccessShaped(url)

\* the stored session is unexpired in the sense of the specification
Live(session) == now < session.expiresAt

\* C1: the parser attempts decryption, or returns a public key, only if a
\* session is stored, is unexpired (now < expiresAt) and its id equals the
\* session parameter of the URL; for a URL carrying another id than the stored
\* one nothing is decrypted and no key is returned.
C1_AcceptedOnlyUnderLiveMatchingSession ==
  (ReturnProcessed /\ (decryptCalls > 0 \/ lastResult.kind = "ok")) =>
    LET session == ls.wordmint_mobile_session
    IN /\ session.kind = "session"
       /\ session.sessionId = GetText(loadUrl, "session")
       /\ Live(session)

\* C2: a success-shaped return for which no session is stored, or whose
\* session parameter differs from the stored id, raises an error that reaches
\* the error screen; it is not reported as a decline.
C2_MismatchRaisesError ==
  (/\ ReturnProcessed
   /\ SuccessShaped(loadUrl)
   /\ \/ ls.wordmint_mobile_session.kind # "session"
      \/ ls.wordmint_mobile_session.sessionId # GetText(loadUrl, "session"))
  => (lastResult.kind = "throw" /\ mcState = "error" /\ Len(onErrorCalls) = 1)

\* C3: a return whose errorCode is 4001 yields null, whatever else the URL
\* carries: nothing is decrypted, nothing is thrown, no error is shown.
C3_DeclineYieldsNull ==
  (ReturnProcessed /\ GetString(loadUrl, "errorCode") = "4001") =>
    /\ lastResult = ResultNull
    /\ decryptCalls = 0
    /\ mcState = "rejected"
    /\ onErrorCalls = <<>>
    /\ errorMessage = ""

\* a decline that also carries every success field, for the stored session
C3_Witness ==
  /\ ReturnProcessed
  /\ GetString(loadUrl, "errorCode") = "4001"
  /\ AllFields(loadUrl)
  /\ ls.wordmint_mobile_session.kind = "session"
  /\ ls.wordmint_mobile_session.sessionId = GetText(loadUrl, "session")
  /\ lastResult = ResultNull

\* C4: getSession returns the stored session exactly while now < expiresAt;
\* from now >= expiresAt on it returns none and deletes the record.
C4_ExpiredFromExpiresAtOn ==
  (AboutToLookUp /\ ls.wordmint_mobile_session.kind = "session") =>
    LET got == getMobileWalletSession(ls, now)
    IN IF Live(ls.wordmint_mobile_session)
       THEN got.session = ls.wordmint_mobile_session /\ got.ls = ls
       ELSE got.session = NoItem /\ got.ls.wordmint_mobile_session = NoItem

\* C5: once a return has been processed, with success, decline or error, the
\* session record is gone from storage.
C5_SessionDeletedAfterReturn ==
  ReturnProcessed => ls.wordmint_mobile_session = NoItem

\* the mount effects of the page have all run
PageSettled ==
  /\ phase = "page"
  /\ hookMounted
  /\ appMounted
  /\ \/ mcState # "unmounted"
     \/ ~(walletState = "not-installed" /\ isMobileDevice(platform))

\* C6: on every page load whose URL is a wallet return the URL is cleaned
\* exactly once, and no protocol parameter is left in the address bar.
C6_ReturnCleanedExactlyOnce ==
  (PageSettled /\ isMobileWalletReturn(loadUrl)) =>
    /\ cleanCalls = 1
    /\ (DOMAIN url) \cap paramsToRemove = {}

\* C7: the key the deep link carries is the public key of the session just
\* created; in no encoding is it the private key of any session created so far.
C7_PrivateKeyNotInDeepLink ==
  (deepLink.endpoint # "none") =>
    LET carried == deepLink.params.dapp_encryption_public_key
    IN /\ Base58Valid(carried)
       /\ bs58decode(carried) = naclBoxKeyPair(sessionsCreated - 1).publicKey
       /\ mcState = "initiating-deep-link" =>
            deepLink.params.redirect_link.query.session
              = ls.wordmint_mobile_session.sessionId
       /\ \A i \in 0..(sessionsCreated - 1) :
            LET secretKey == naclBoxKeyPair(i).secretKey
            IN /\ bs58decode(carried) # secretKey
               /\ carried # arrayBufferToBase64(secretKey)
               /\ carried # secretKey

\* the page has built its last deep link and is navigating to it
C7_Witness ==
  /\ mcState = "initiating-deep-link"
  /\ sessionsCreated >= 2
  /\ deepLink.endpoint # "none"
  /\ deepLink.params.redirect_link.query.session = ls.wordmint_mobile_session.sessionId
  /\ base64ToArrayBuffer(ls.wordmint_mobile_session.privateKey)
       = naclBoxKeyPair(sessionsCreated - 1).secretKey

\* data is a box made for the session's key pair by the holder of the supplied
\* wallet key under the supplied nonce, and its payload carries publicKey
Authentic(u, session, publicKey) ==
  /\ Base58Valid(SuppliedKey(u)) /\ Base58Valid(u["data"]) /\ Base58Valid(u["nonce"])
  /\ bs58decode(SuppliedKey(u)) = WalletKeyPair.publicKey
  /\ \E m \in Messages :
       /\ bs58decode(u["data"]) =
            naclBox(m, bs58decode(u["nonce"]),
                    PublicOfSecret(base64ToArrayBuffer(session.privateKey)),
                    WalletKeyPair.secretKey)
       /\ JsonParse(m).t = "object"
       /\ \/ /\ JsonParse(m).public_key.t = "string"
             /\ JsonParse(m).public_key.v = publicKey
          \/ /\ JsonParse(m).publicKey.t = "string"
             /\ JsonParse(m).publicKey.v = publicKey

\* C8: a return is answered with a wallet public key only if its data is an
\* authentic box under the supplied nonce and wallet key and the session's
\* private key; a changed ciphertext, nonce or key is never accepted.
C8_OnlyAuthenticBoxAccepted ==
  (ReturnProcessed /\ lastResult.kind = "ok") =>
    /\ ls.wordmint_mobile_session.kind = "session"
    /\ Authentic(loadUrl, ls.wordmint_mobile_session, lastResult.publicKey)

\* a return with a changed ciphertext, nonce or key has been decrypted and refused
C8_Witness ==
  /\ ReturnProcessed
  /\ decryptCalls = 1
  /\ ls.wordmint_mobile_session.kind = "session"
  /\ \A k \in {"K1", "K2", ""} : ~Authentic(loadUrl, ls.wordmint_mobile_session, k)
  /\ lastResult.kind = "throw"
  /\ mcState = "error"

\* C9: the decryptor answers with a public key only when the decrypted JSON
\* has public_key or publicKey and the value found is a non-empty string.
C9_KeyIsNonEmptyString ==
  (ReturnProcessed /\ lastResult.kind = "ok") =>
    /\ lastResult.publicKey # ""
    /\ Authentic(loadUrl, ls.wordmint_mobile_session, lastResult.publicKey)

\* the return URL of a wallet approving the stored session under the Phantom
\* parameter name, with payload {"publicKey": "K1"}
HonestReturn(session) ==
  ApprovalUrl([sessionId |-> session.sessionId,
               dappKey |-> base64ToArrayBuffer(session.publicKey),
               keyParam |-> "phantom_encryption_public_key"], <<1>>)

\* C10: after a session is created and its deep link built, the return URL
\* mobile_return, session, phantom_encryption_public_key, data, nonce with
\* payload {"publicKey": K} encrypted to the session's public key makes the
\* parser return exactly {publicKey: K, authToken: undefined, walletUriBase:
\* undefined}, while the session is stored.
C10_EndToEndSuccess ==
  (/\ ReturnProcessed
   /\ ls.wordmint_mobile_session.kind = "session"
   /\ loadUrl = HonestReturn(ls.wordmint_mobile_session))
  => /\ lastResult = ResultOk("K1", JsUndefined, JsUndefined)
     /\ mcState = "connected"
     /\ onConnectedCalls = <<"K1">>

\* the honest return has been processed for the session of the deep link
C10_Witness ==
  /\ ReturnProcessed
  /\ ls.wordmint_mobile_session.kind = "session"
  /\ loadUrl = HonestReturn(ls.wordmint_mobile_session)
  /\ deepLink.endpoint = "https://phantom.app/ul/v1/connect"
  /\ deepLink.params.redirect_link.query.session = loadUrl["session"]
  /\ lastResult.kind = "ok"

\* the fixed HTTPS endpoint of a supported wallet
ConnectEndpoint(walletApp) ==
  IF walletApp = "phantom"
  THEN "https://phantom.app/ul/v1/connect"
  ELSE "https://solflare.com/ul/v1/connect"

C12_OtherErrorCodeThrows ==
  (ReturnProcessed /\ Has(loadUrl, "errorCode") /\ loadUrl["errorCode"] # "4001") =>
    /\ lastResult.kind = "throw"
    /\ GetString(loadUrl, "errorMessage") # "" =>
         lastResult.message = "Wallet error: " \o loadUrl["errorMessage"]
    /\ mcState = "error"
    /\ errorMessage = lastResult.message
    /\ onErrorCalls = <<lastResult.message>>

\* a wallet error with a message, on a return that also has every success field
C12_Witness ==
  /\ ReturnProcessed
  /\ GetString(loadUrl, "errorCode") = "4900"
  /\ GetString(loadUrl, "errorMessage") = "Wallet is locked."
  /\ AllFields(loadUrl)
  /\ lastResult = ResultThrow("Wallet error: Wallet is locked.")

\* C13: a return without errorCode in which one of the four required fields
\* is missing yields null: nothing is decrypted and no error is raised.
C13_MissingFieldYieldsNull ==
  (ReturnProcessed /\ ~Has(loadUrl, "errorCode") /\ ~AllFields(loadUrl)) =>
    /\ lastResult = ResultNull
    /\ decryptCalls = 0
    /\ mcState = "rejected"
    /\ onErrorCalls = <<>>

\* a return from which exactly the data field is missing has been processed
C13_Witness ==
  /\ ReturnProcessed
  /\ ~Has(loadUrl, "errorCode")
  /\ ~Has(loadUrl, "data")
  /\ SuppliedKey(loadUrl) # <<>>
  /\ Has(loadUrl, "nonce") /\ Has(loadUrl, "session")
  /\ lastResult = ResultNull

\* the parser's answer to a return when nothing is stored under the session key
AnswerWithoutSession(u) ==
  parseMobileWalletResponse(u, [ls EXCEPT !.wordmint_mobile_session = NoItem], now).result

\* a return processed over an unparsable session value is answered as over none
CorruptionAnsweredAsAbsent ==
  (ReturnProcessed /\ ls.wordmint_mobile_session = Unparsable) =>
    /\ lastResult = AnswerWithoutSession(loadUrl)
    /\ decryptCalls = 0
    /\ SuccessShaped(loadUrl) => (lastResult = ResultNull /\ onErrorCalls = <<>>)

\* a connect attempt over an unparsable session value stores a new session
ConnectOverCorruption ==
  (/\ ls.wordmint_mobile_session = Unparsable
   /\ mcState = "external-browser"
   /\ mcState' = "initiating-deep-link")
  => /\ ls'.wordmint_mobile_session.kind = "session"
     /\ ls'.wordmint_mobile_session.sessionId[2] = sessionsCreated'
     /\ deepLink'.params.redirect_link.query.session
          = ls'.wordmint_mobile_session.sessionId

\* C14: when the stored session value cannot be parsed, the session getter
\* answers null and throws nothing, and its callers go on as if nothing were
\* stored: the parser gives the answer it gives without a session, and a
\* connect attempt stores a new session.
C14_CorruptionTreatedAsAbsent ==
  []CorruptionAnsweredAsAbsent /\ [][ConnectOverCorruption]_vars

\* a success-shaped return has been processed over an unparsable session value
C14_Witness ==
  /\ ReturnProcessed
  /\ ls.wordmint_mobile_session = Unparsable
  /\ SuccessShaped(loadUrl)
  /\ lastResult = ResultNull

\* C15: on a return page load the parser has run and finished before the URL
\* is cleaned and before other initialization acts on the load: when App has
\* restored a previously saved wallet, the return has already been parsed, and
\* the URL is never cleaned before it has been parsed.
C15_ParseBeforeOtherInitialization ==
  (phase = "page" /\ isMobileWalletReturn(loadUrl)) =>
    /\ (appMounted /\ savedWalletLoaded # "") => parseCalls >= 1
    /\ cleanCalls >= 1 => parseCalls >= 1

\* C16: a decline (errorCode 4001) is not surfaced as an error: the connect
\* component ends in the 'rejected' state, whose screen offers the retry button,
\* onError is not called and no error message is set.
C16_DeclineIsNotAnError ==
  (ReturnProcessed /\ GetString(loadUrl, "errorCode") = "4001") =>
    /\ mcState = "rejected"
    /\ ENABLED RetryConnection
    /\ onErrorCalls = <<>>
    /\ onConnectedCalls = <<>>
    /\ errorMessage = ""

\* the wallet's decline, with its message, of the session of the deep link
C16_Witness ==
  /\ ReturnProcessed
  /\ GetString(loadUrl, "errorCode") = "4001"
  /\ GetString(loadUrl, "errorMessage") = "User rejected the request."
  /\ deepLink.endpoint # "none"
  /\ GetText(loadUrl, "session") = deepLink.params.redirect_link.query.session
  /\ mcState = "rejected"

\* the handshake has failed and the page shows the rejected or the error screen
Failure == phase = "page" /\ mcState \in {"rejected", "error"}

\* the page shows the deep-link buttons of connectViaDeepLink
ConnectShown == phase = "page" /\ mcState = "external-browser"

\* a connect step stores a session and builds a deep link that are both new
ConnectCreatesFresh ==
  (mcState = "external-browser" /\ mcState' = "initiating-deep-link") =>
    LET old == ls.wordmint_mobile_session
        new == ls'.wordmint_mobile_session
    IN /\ new.kind = "session"
       /\ old.kind = "session" =>
            /\ new.sessionId # old.sessionId
            /\ new.privateKey # old.privateKey
            /\ new.publicKey # old.publicKey
       /\ new.expiresAt >= now' + SessionLifetime - 1
       /\ deepLink' # deepLink
       /\ deepLink'.params.redirect_link.query.session = new.sessionId
       /\ bs58decode(deepLink'.params.dapp_encryption_public_key)
            = base64ToArrayBuffer(new.publicKey)

C18_CleanedUrlIsNoReturn ==
  (phase = "page" /\ cleanCalls >= 1) =>
    /\ \A name \in {"mobile_return", "session", "phantom_encryption_public_key",
                    "solflare_encryption_public_key", "data", "nonce", "auth_token",
                    "wallet_uri_base", "errorCode", "errorMessage"} :
         ~Has(url, name)
    /\ ~isMobileWalletReturn(url)
    /\ \A name \in (DOMAIN loadUrl) \ paramsToRemove :
         Has(url, name) /\ url[name] = loadUrl[name]

\* a Solflare return has been cleaned
C18_Witness ==
  /\ phase = "page"
  /\ cleanCalls = 1
  /\ Has(loadUrl, "solflare_encryption_public_key")
  /\ Has(loadUrl, "mobile_return")
  /\ DOMAIN url = {}

\* the payloads {"publicKey": X} and {"public_key": X} of the model
SingleKeyPayloads ==
  { [message |-> <<1>>, name |-> "publicKey", X |-> "K1"],
    [message |-> <<2>>, name |-> "public_key", X |-> "K1"],
    [message |-> <<10>>, name |-> "publicKey", X |-> "K2"],
    [message |-> <<11>>, name |-> "public_key", X |-> "K2"] }

\* the return URL of a wallet approving the stored session with a payload
ReturnWith(session, keyParam, message) ==
  ApprovalUrl([sessionId |-> session.sessionId,
               dappKey |-> base64ToArrayBuffer(session.publicKey),
               keyParam |-> keyParam], message)

\* the payload of SingleKeyPayloads the processed return carries, if any
CarriedPayloads ==
  { p \in SingleKeyPayloads :
      \E keyParam \in {"phantom_encryption_public_key", "solflare_encryption_public_key"} :
        loadUrl = ReturnWith(ls.wordmint_mobile_session, keyParam, p.message) }

\* C19: the decrypted payloads {"publicKey": X} and {"public_key": X}, X a
\* non-empty string, both make the decryptor return {publicKey: X}.
C19_FieldNameTolerance ==
  (ReturnProcessed /\ ls.wordmint_mobile_session.kind = "session") =>
    \A p \in CarriedPayloads :
      /\ decryptCalls = 1
      /\ lastResult.kind = "ok"
      /\ lastResult.publicKey = p.X
      /\ onConnectedCalls = <<p.X>>

\* a payload with the snake-case name has been decrypted
C19_Witness ==
  /\ ReturnProcessed
  /\ ls.wordmint_mobile_session.kind = "session"
  /\ \E p \in CarriedPayloads : p.name = "public_key" /\ p.X = "K2"
  /\ lastResult.kind = "ok"

\* C20: for the base64 pair and for the base58 pair, decoding the text an
\* encoder returned gives back the bytes that were encoded, for byte sequences
\* from the empty one up to 128 bytes, all-zero and all-0xFF ones among them;
\* the text is one the decoder accepts.
C20_EncodersRoundTrip ==
  /\ codec = "base64" => Base64Valid(text)
  /\ codec = "base58" => Base58Valid(text)
  /\ decoded # NoBytes => decoded = buffer

\* 128 zero bytes have gone through the base58 pair
C20_Witness ==
  /\ codec = "base58"
  /\ Len(buffer) = 128
  /\ buffer[1] = 0
  /\ decoded # NoBytes

\* C21: every session record in local storage has expiresAt exactly
\* SessionLifetime after its own created timestamp, whatever time passes while
\* createMobileWalletSession runs.
C21_ExpiresAtIsCreatedPlusLifetime ==
  ls.wordmint_mobile_session.kind = "session" =>
    ls.wordmint_mobile_session.expiresAt
      = ls.wordmint_mobile_session.created + SessionLifetime

\* the processed return carries the first session's id although a later
\* session has been created since
StaleReturn ==
  /\ ReturnProcessed
  /\ sessionsCreated >= 2
  /\ GetText(loadUrl, "session") = FirstSessionId

\* createMobileWalletSession leaves its own record in the one storage slot
CreateOverwrites ==
  sessionsCreated' = sessionsCreated + 1 =>
    /\ ls'.wordmint_mobile_session.kind = "session"
    /\ ls'.wordmint_mobile_session.sessionId[2] = sessionsCreated'
    /\ sessionsCreated = 0 => ls'.wordmint_mobile_session.sessionId = FirstSessionId
    /\ ls.wordmint_mobile_session.kind = "session" =>
         ls'.wordmint_mobile_session.sessionId # ls.wordmint_mobile_session.sessionId

\* C22: createMobileWalletSession overwrites the earlier record, so after a
\* second call only the second session can be matched: a return carrying the
\* first session's id is not accepted and no public key is returned for it.
C22_OnlyLatestSessionMatches ==
  /\ [](StaleReturn =>
         /\ lastResult.kind # "ok"
         /\ onConnectedCalls = <<>>
         /\ ls.wordmint_mobile_session.kind = "session" =>
              ls.wordmint_mobile_session.sessionId # FirstSessionId)
  /\ [][CreateOverwrites]_vars

\* the first wallet's approval came back while the second session was stored live
C22_Witness ==
  /\ StaleReturn
  /\ Has(loadUrl, "data")
  /\ ls.wordmint_mobile_session.kind = "session"
  /\ ls.wordmint_mobile_session.sessionId[2] = 2
  /\ now < ls.wordmint_mobile_session.expiresAt

\* the step that processes a success-shaped return carrying the id of the
\* stored session
MatchingReturnStep ==
  /\ AboutToLookUp
  /\ ls.wordmint_mobile_session.kind = "session"
  /\ ls.wordmint_mobile_session.sessionId = GetText(url, "session")
  /\ mcState' # "unmounted"

\* what is asked of that step once the session has expired
ExpiredReturnRejected ==
  /\ decryptCalls' = 0
  /\ lastResult'.kind # "ok"
  /\ onConnectedCalls' = <<>>
  /\ ls'.wordmint_mobile_session = NoItem
  /\ ls'.wordmint_wallet = ls.wordmint_wallet

\* C26: a return arriving once the session has expired (now >= expiresAt) is
\* not accepted although it carries the stored session id: nothing is
\* decrypted, no key is returned and the expired record is deleted.
C26_ExpiredReturnNotAccepted ==
  [][(MatchingReturnStep /\ ~Live(ls.wordmint_mobile_session))
       => ExpiredReturnRejected]_vars

(***************************************************************************)
(* URL cleaning on the address bar as written.  A query parameter is kept  *)
(* with the way it is written: "bare" is a name with no "=", "plain" is    *)
(* name=value, "%20" and "+" are the two ways of writing a space.          *)
(***************************************************************************)
QueryNames == {"mobile_return", "data", "utm", "Data"}

RawParams ==
  { [name |-> n, value |-> w.value, written |-> w.written] :
      n \in QueryNames,
      w \in { [value |-> "", written |-> "bare"],
               [value |-> "x", written |-> "plain"],
               [value |-> "a b", written |-> "%20"] } }

\* new URL(href).searchParams: the list of name-value pairs, decoded
ParseSearch(search) ==
  [i \in 1..Len(search) |-> [name |-> search[i].name, value |-> search[i].value]]

\* the URLSearchParams serializer: always name=value, a space as "+"
SerializeSearch(list) ==
  [i \in 1..Len(list) |->
     [name |-> list[i].name, value |-> list[i].value,
      written |-> IF list[i].value = "a b" THEN "+" ELSE "plain"]]

\* searchParams.delete(param) for each param of paramsToRemove
DeleteParams(list) == SelectSeq(list, LAMBDA p : p.name \notin paramsToRemove)

\* a cleaning that empties the query string
cleanLocationDroppingSearch(h) == [h EXCEPT !.search = <<>>]

\* cleanMobileWalletReturnUrl on the URL as written: the argument of replaceState
cleanLocation(h) ==
  [h EXCEPT !.search = SerializeSearch(DeleteParams(ParseSearch(h.search)))]

Hrefs ==
  { [origin |-> "https://wordmint.app", pathname |-> l.pathname,
     search |-> q, hash |-> l.hash] :
      l \in { [pathname |-> "/", hash |-> ""], [pathname |-> "/play", hash |-> "#top"] },
      q \in UNION { [1..n -> RawParams] : n \in 0..MaxParams } }

PreviousEntry ==
  [origin |-> "https://wordmint.app", pathname |-> "/", search |-> <<>>, hash |-> ""]

CleanInit ==
  /\ HandshakeInit
  /\ platform = "desktop"
  /\ CodecIdle
  /\ HookIdle
  /\ ServerIdle
  /\ RetryIdle
  /\ loadedHref \in Hrefs
  /\ href = loadedHref
  /\ entries = <<PreviousEntry, loadedHref>>
  /\ documentLoads = 1
  /\ cleanRuns = 0

\* cleanMobileWalletReturnUrl: history.replaceState puts the cleaned URL in the
\* place of the current entry and loads nothing
CleanUrl ==
  /\ cleanRuns < MaxCleanRuns
  /\ cleanRuns' = cleanRuns + 1
  /\ href' = cleanLocation(href)
  /\ entries' = [entries EXCEPT ![Len(entries)] = cleanLocation(href)]
  /\ UNCHANGED <<loadedHref, documentLoads, outsideClean>>

CleanNext == CleanUrl

CleanSpec == CleanInit /\ [][CleanNext]_vars

\* the parameters of a query string outside the enumerated ones, in order
OtherParams(search) ==
  SelectSeq(ParseSearch(search), LAMBDA p : p.name \notin paramsToRemove)

\* the query string as the handshake sees it: searchParams.has and
\* searchParams.get, which answers with the first value of a name
AsUrlParams(search) ==
  [n \in {search[i].name : i \in 1..Len(search)} |->
     search[CHOOSE i \in 1..Len(search) :
              /\ search[i].name = n
              /\ \A j \in 1..(i - 1) : search[j].name # n].value]

CleanedOnlyProtocolParams ==
  cleanRuns >= 1 =>
    /\ OtherParams(href.search) = OtherParams(loadedHref.search)
    /\ \A i \in 1..Len(href.search) : href.search[i].name \notin paramsToRemove
    /\ href.origin = loadedHref.origin
    /\ href.pathname = loadedHref.pathname
    /\ href.hash = loadedHref.hash
    /\ documentLoads = 1
    /\ entries = <<PreviousEntry, href>>
    /\ AsUrlParams(href.search)
         = cleanMobileWalletReturnUrl(AsUrlParams(loadedHref.search))

SecondCleanChangesNothing ==
  (cleanRuns >= 1 /\ cleanRuns' = cleanRuns + 1) =>
    /\ href' = href
    /\ entries' = entries

\* C30: cleanMobileWalletReturnUrl removes the enumerated parameters and
\* nothing else: every other parameter keeps its name and value, origin, path
\* and fragment stay, no document is loaded and no history entry is added, and
\* a second call leaves the URL as the first call left it.
C30_CleanChangesOnlyProtocolParams ==
  /\ []CleanedOnlyProtocolParams
  /\ [][SecondCleanChangesNothing]_vars

\* a URL with protocol parameters around two others has been cleaned twice
C30_Witness ==
  /\ cleanRuns = 2
  /\ Len(loadedHref.search) = 3
  /\ loadedHref.search[2].name = "mobile_return"
  /\ loadedHref.search[1] = [name |-> "Data", value |-> "a b", written |-> "%20"]
  /\ loadedHref.search[3] = [name |-> "utm", value |-> "", written |-> "bare"]
  /\ Len(href.search) = 2
  /\ loadedHref.pathname = "/play"

(***************************************************************************)
(* useWallet: the hook as a whole.  The wallet is the environment: it can  *)
(* approve or refuse a connect request, and it remembers an approval.      *)
(***************************************************************************)
HookDevices == Platforms \cup {"desktop-wallet"}

\* detectWallet: an extension has injected a provider into window
detectWallet(pf) == pf \in {"desktop-wallet", "mobile-inapp"}

WalletAddress == "7xKXtg2CW87d97TXJSDpbD5jBkheTqA83TZRuJosgAsU"

\* shortenAddress: the first four and the last six characters
shortenAddress(address) ==
  IF address = WalletAddress THEN "7xKX...osgAsU" ELSE address

\* what provider.connect() can reject with
ConnectErrors ==
  { [code |-> 4001, message |-> "User rejected the request."],
    [code |-> 4001, message |-> ""],
    [code |-> 0, message |-> "User cancelled"],
    [code |-> -32603, message |-> "Wallet is locked"],
    [code |-> 0, message |-> ""] }

\* error.message?.includes(...) of the four phrases
MentionsRejection(message) ==
  message \in {"User rejected the request.", "User cancelled", "User denied"}

isRejection(error) == MentionsRejection(error.message) \/ error.code = 4001

\* the user rejected the request, by the code or by the message
UserRejected(error) == error.code = 4001 \/ MentionsRejection(error.message)

NoError == [code |-> 0, message |-> ""]

\* a promise or timer started by the component of mount number m
Promise(op, m) == [op |-> op, mount |-> m, status |-> "pending", error |-> NoError]

\* the component that started a promise is still the mounted one
Current(p) == mounted /\ p.mount = mounts

\* What is in flight once the component is unmounted.  setState of an
\* unmounted component does nothing, so a timer and the catch block of a
\* rejected connect have no effect left and are dropped; the other promises
\* still write to localStorage, whichever component started them (mount 0).
Orphaned(promises) ==
  { [p EXCEPT !.mount = 0] :
      p \in { q \in promises : q.op # "timer" /\ q.status # "rejected" } }

HookInit ==
  /\ HandshakeInit
  /\ platform = "desktop"
  /\ CodecIdle
  /\ HrefIdle
  /\ ServerIdle
  /\ RetryIdle
  /\ device \in HookDevices
  /\ trusted \in BOOLEAN
  /\ trusted => detectWallet(device)
  /\ hookStorage = [wordmint_intentional_disconnect |-> FALSE, wordmint_wallet |-> ""]
  /\ mounted = FALSE
  /\ mounts = 0
  /\ walletInfo = InitialWalletInfo
  /\ provider = FALSE
  /\ isDisconnecting = FALSE
  /\ pending = {}
  /\ trace = <<>>
  /\ autoConnects = 0

\* the mount effect, first branch: the flag of an intentional disconnect is set
MountAfterDisconnect ==
  /\ hookStorage' = [hookStorage EXCEPT !.wordmint_intentional_disconnect = FALSE]
  /\ walletInfo' = [state |-> "detected", publicKey |-> "", error |-> ""]
  /\ provider' = IF isMobileDevice(device) THEN getMobileWalletProvider(device)
                                            ELSE detectWallet(device)
  /\ pending' = pending
  /\ autoConnects' = 0

\* the mount effect past the first branch: the mobile flow and the desktop flow
MountAndDetect ==
  /\ hookStorage' = hookStorage
  /\ IF isMobileDevice(device)
     THEN IF getMobileWalletProvider(device)
          THEN /\ provider' = TRUE
               /\ walletInfo' = [state |-> "detected", publicKey |-> "", error |-> ""]
               /\ pending' = pending \cup {Promise("auto", mounts + 1)}
               /\ autoConnects' = 1
          ELSE /\ provider' = FALSE
               /\ walletInfo' = [state |-> "not-installed", publicKey |-> "",
                                 error |-> "No wallet detected. Please use a wallet browser."]
               /\ pending' = pending
               /\ autoConnects' = 0
     ELSE IF ~detectWallet(device)
          THEN /\ provider' = FALSE
               /\ walletInfo' = [state |-> "not-installed", publicKey |-> "",
                                 error |-> "No Solana wallet found. Please install Phantom or Solflare."]
               /\ pending' = pending
               /\ autoConnects' = 0
          ELSE /\ provider' = TRUE
               /\ walletInfo' = [walletInfo EXCEPT !.state = "detected", !.error = ""]
               /\ pending' = pending \cup {Promise("auto", mounts + 1)}
               /\ autoConnects' = 1

\* a mount effect that never looks at the flag
HookMountIgnoringFlag ==
  /\ ~mounted
  /\ mounts < MaxMounts
  /\ mounted' = TRUE
  /\ mounts' = mounts + 1
  /\ MountAndDetect
  /\ UNCHANGED <<device, trusted, isDisconnecting, trace, outsideHook>>

\* the mount effect of useWallet
HookMount ==
  /\ ~mounted
  /\ mounts < MaxMounts
  /\ mounted' = TRUE
  /\ mounts' = mounts + 1
  /\ IF hookStorage.wordmint_intentional_disconnect
     THEN MountAfterDisconnect
     ELSE MountAndDetect
  /\ UNCHANGED <<device, trusted, isDisconnecting, trace, outsideHook>>

\* tryAutoConnect settles: the wallet answers with the key only if it trusts the app
AutoConnectSettles ==
  \E p \in pending :
    /\ p.op = "auto"
    /\ pending' = pending \ {p}
    /\ IF trusted
       THEN /\ walletInfo' = IF Current(p)
                             THEN [state |-> "connected",
                                   publicKey |-> shortenAddress(WalletAddress),
                                   error |-> ""]
                             ELSE walletInfo
            /\ hookStorage' = [hookStorage EXCEPT !.wordmint_wallet = WalletAddress]
       ELSE UNCHANGED <<walletInfo, hookStorage>>
    /\ UNCHANGED <<device, trusted, mounted, mounts, provider, isDisconnecting, trace,
                   autoConnects, outsideHook>>

\* handleConnect up to the await: the button of the detected, rejected and
\* error screens
HandleConnect ==
  /\ mounted
  /\ walletInfo.state \in {"detected", "rejected", "error"}
  /\ provider
  /\ walletInfo' = [walletInfo EXCEPT !.state = "connecting", !.error = ""]
  /\ trace' = <<walletInfo.state, "connecting">>
  /\ pending' = pending \cup {Promise("connect", mounts)}
  /\ UNCHANGED <<device, trusted, hookStorage, mounted, mounts, provider, isDisconnecting,
                 autoConnects, outsideHook>>

\* the wallet popup is answered: provider.connect() resolves or rejects
WalletAnswers ==
  \E p \in pending :
    /\ p.op = "connect"
    /\ p.status = "pending"
    /\ \/ /\ pending' = (pending \ {p}) \cup {[p EXCEPT !.status = "fulfilled"]}
          /\ trusted' = TRUE
       \/ /\ \E error \in ConnectErrors :
               pending' = IF Current(p)
                          THEN (pending \ {p})
                                 \cup {[p EXCEPT !.status = "rejected", !.error = error]}
                          ELSE pending \ {p}
          /\ UNCHANGED trusted
    /\ UNCHANGED <<device, hookStorage, mounted, mounts, walletInfo, provider,
                   isDisconnecting, trace, autoConnects, outsideHook>>

\* connectWallet resolves: the rest of the try block of handleConnect
ConnectApproved ==
  \E p \in pending :
    /\ p.op = "connect"
    /\ p.status = "fulfilled"
    /\ pending' = pending \ {p}
    /\ UNCHANGED trusted
    /\ hookStorage' = [hookStorage EXCEPT !.wordmint_wallet = WalletAddress]
    /\ IF Current(p)
       THEN /\ walletInfo' = [state |-> "connected",
                              publicKey |-> shortenAddress(WalletAddress), error |-> ""]
            /\ trace' = Append(trace, "connected")
       ELSE UNCHANGED <<walletInfo, trace>>
    /\ UNCHANGED <<device, mounted, mounts, provider, isDisconnecting, autoConnects,
                   outsideHook>>

\* connectWallet throws: the catch block of handleConnect
ConnectFailed ==
  \E p \in pending :
    /\ p.op = "connect"
    /\ p.status = "rejected"
    /\ pending' = pending \ {p}
    /\ IF Current(p)
       THEN LET error == p.error
                next == IF isRejection(error)
                        THEN [state |-> "detected", publicKey |-> "", error |-> ""]
                        ELSE [state |-> "error", publicKey |-> "",
                              error |-> IF error.message = ""
                                        THEN "Failed to connect wallet"
                                        ELSE error.message]
            IN /\ walletInfo' = next
               /\ trace' = Append(trace, next.state)
       ELSE UNCHANGED <<walletInfo, trace>>
    /\ UNCHANGED <<device, trusted, hookStorage, mounted, mounts, provider,
                   isDisconnecting, autoConnects, outsideHook>>

\* handleDisconnect of the hook up to the await
HookDisconnect ==
  /\ mounted
  /\ walletInfo.state = "connected"
  /\ provider
  /\ isDisconnecting' = TRUE
  /\ hookStorage' = [hookStorage EXCEPT !.wordmint_intentional_disconnect = TRUE]
  /\ pending' = pending \cup {Promise("disconnect", mounts)}
  /\ UNCHANGED <<device, trusted, mounted, mounts, walletInfo, provider, trace,
                 autoConnects, outsideHook>>

\* disconnectWallet settles; ok is whether provider.disconnect() resolved
DisconnectSettles ==
  \E p \in pending, ok \in BOOLEAN :
    /\ p.op = "disconnect"
    /\ IF ok
       THEN /\ trusted' = FALSE
            /\ hookStorage' = [hookStorage EXCEPT !.wordmint_wallet = ""]
            /\ walletInfo' = IF Current(p)
                             THEN [state |-> "detected", publicKey |-> "", error |-> ""]
                             ELSE walletInfo
            /\ pending' = (pending \ {p}) \cup {Promise("timer", p.mount)}
            /\ UNCHANGED isDisconnecting
       ELSE /\ walletInfo' = IF Current(p)
                             THEN [walletInfo EXCEPT !.error = "Failed to disconnect wallet"]
                             ELSE walletInfo
            /\ isDisconnecting' = IF Current(p) THEN FALSE ELSE isDisconnecting
            /\ pending' = pending \ {p}
            /\ UNCHANGED <<trusted, hookStorage>>
    /\ UNCHANGED <<device, mounted, mounts, provider, trace, autoConnects, outsideHook>>

\* the setTimeout of handleDisconnect fires after a second
DisconnectingTimeout ==
  \E p \in pending :
    /\ p.op = "timer"
    /\ pending' = pending \ {p}
    /\ isDisconnecting' = IF Current(p) THEN FALSE ELSE isDisconnecting
    /\ UNCHANGED <<device, trusted, hookStorage, mounted, mounts, walletInfo, provider,
                   trace, autoConnects, outsideHook>>

\* useState starts afresh in the next component
Unmounted ==
  /\ mounted' = FALSE
  /\ walletInfo' = InitialWalletInfo
  /\ provider' = FALSE
  /\ isDisconnecting' = FALSE
  /\ trace' = <<>>
  /\ autoConnects' = 0

\* LandingPage calls onConnect and App shows the dashboard: the hook is
\* unmounted, its promises stay in flight
LeaveLanding ==
  /\ mounted
  /\ walletInfo.state = "connected"
  /\ hookStorage.wordmint_wallet # ""
  /\ Unmounted
  /\ pending' = Orphaned(pending)
  /\ UNCHANGED <<device, trusted, hookStorage, mounts, outsideHook>>

\* handleDisconnect of App, from the dashboard, which App shows for a saved
\* wallet; the landing page is shown next
AppDisconnect ==
  /\ ~mounted
  /\ hookStorage.wordmint_wallet # ""
  /\ mounts < MaxMounts
  /\ hookStorage' = [wordmint_intentional_disconnect |-> TRUE, wordmint_wallet |-> ""]
  /\ UNCHANGED <<device, trusted, mounted, mounts, walletInfo, provider, isDisconnecting,
                 pending, trace, autoConnects, outsideHook>>

\* the user reloads the page: nothing of the old page is left but localStorage
HookReload ==
  /\ mounted
  /\ mounts < MaxMounts
  /\ Unmounted
  /\ pending' = {}
  /\ UNCHANGED <<device, trusted, hookStorage, mounts, outsideHook>>

HookNext ==
  \/ HookMount
  \/ AutoConnectSettles
  \/ HandleConnect
  \/ WalletAnswers
  \/ ConnectApproved
  \/ ConnectFailed
  \/ HookDisconnect
  \/ DisconnectSettles
  \/ DisconnectingTimeout
  \/ LeaveLanding
  \/ AppDisconnect
  \/ HookReload

HookSpec == HookInit /\ [][HookNext]_vars

\* the promises of the mounted component that the user's refusal has rejected
RefusedConnects ==
  { p \in pending : /\ p.op = "connect"
                    /\ p.status = "rejected"
                    /\ UserRejected(p.error)
                    /\ Current(p) }

\* the catch block of handleConnect runs on a refusal
RefusalHandled == \E p \in RefusedConnects : p \notin pending'

\* C27: when connectWallet fails because the user rejected the request (code
\* 4001 or a rejection message), walletInfo.state goes detected -> connecting
\* -> rejected.
C27_RejectionLeadsToRejected ==
  [][(RefusalHandled /\ trace[1] = "detected") =>
       /\ walletInfo'.state = "rejected"
       /\ trace' = <<"detected", "connecting", "rejected">>]_vars

\* the mount effect runs with the flag of an intentional disconnect in storage
FlaggedMount ==
  /\ ~mounted
  /\ mounted'
  /\ hookStorage.wordmint_intentional_disconnect

\* the mount effect runs with no flag in storage and a wallet in the page
UnflaggedMount ==
  /\ ~mounted
  /\ mounted'
  /\ ~hookStorage.wordmint_intentional_disconnect
  /\ IF isMobileDevice(device) THEN getMobileWalletProvider(device)
                                 ELSE detectWallet(device)

\* only handleDisconnect, of the hook or of App, raises the flag
FlagRaisedOnlyByDisconnect ==
  (~hookStorage.wordmint_intentional_disconnect
     /\ hookStorage'.wordmint_intentional_disconnect)
    => \/ mounted /\ walletInfo.state = "connected" /\ isDisconnecting'
       \/ ~mounted /\ hookStorage'.wordmint_wallet = ""

\* C28: the mount of useWallet that follows an intentional disconnect calls
\* no tryAutoConnect, ends in state 'detected' with no public key and removes
\* the flag; a mount that finds no flag and has a wallet calls tryAutoConnect.
C28_DisconnectSkipsOneAutoConnect ==
  /\ [][FlaggedMount =>
          /\ autoConnects' = 0
          /\ pending' = pending
          /\ walletInfo' = [state |-> "detected", publicKey |-> "", error |-> ""]
          /\ ~hookStorage'.wordmint_intentional_disconnect
          /\ hookStorage'.wordmint_wallet = hookStorage.wordmint_wallet]_vars
  /\ [][UnflaggedMount =>
          /\ autoConnects' = 1
          /\ Promise("auto", mounts') \in pending' \ pending]_vars
  /\ [][FlagRaisedOnlyByDisconnect]_vars

\* a mount has consumed the flag and made no attempt, although the wallet
\* trusts the app and an attempt would have connected
C28_Witness ==
  /\ mounted
  /\ mounts = 2
  /\ provider
  /\ trusted
  /\ autoConnects = 0
  /\ walletInfo.state = "detected"
  /\ pending = {}
  /\ ~hookStorage.wordmint_intentional_disconnect

(***************************************************************************)
(* The server.  A handler runs from one await of input or output to the    *)
(* next in one step; between two steps of a request the steps of other     *)
(* requests can run.  The store and the chain are those of one wallet.     *)
(***************************************************************************)
\* a request the server has received
Request(endpoint, body) ==
  [endpoint |-> endpoint, pc |-> "received", wallet |-> body.wallet,
   amount |-> body.amount, gameScore |-> body.gameScore, gameId |-> body.gameId,
   key |-> "", tab |-> body.tab, isCorrect |-> body.isCorrect,
   status |-> 0, error |-> "", player |-> NoPlayer]

Body(wallet, amount, gameScore, gameId) ==
  [wallet |-> wallet, amount |-> amount, gameScore |-> gameScore, gameId |-> gameId,
   tab |-> 0, isCorrect |-> FALSE]

\* c.json(..., status) ends the request
Respond(r, status, error) == [r EXCEPT !.pc = "done", !.status = status, !.error = error]

\* the bodies a client can post to /token/claim
ClaimBodies ==
  { Body(WalletAddress, 50, 50, "game_1"),
    Body(WalletAddress, 50, 50, "game_2"),
    Body(WalletAddress, 50, 50, ""),
    Body("", 50, 50, "game_1"),
    Body(WalletAddress, 0, 50, "game_1"),
    Body(WalletAddress, 50, 0, "game_1"),
    Body(WalletAddress, 120, 50, "game_1") }

\* what Date.now() can answer while the server runs
Timestamps == {"1730000000000", "1730000000001"}

GameIds == {"game_1", "game_2"}

\* the part of a claim key after claim:<wallet>:
ClaimKeys == GameIds \cup Timestamps

\* validateRewardClaim: "" when valid, else the reason; a wallet address has
\* at least 32 characters
validateRewardClaim(walletAddress, gameScore, claimAmount) ==
  IF walletAddress # WalletAddress THEN "Invalid wallet address"
  ELSE IF gameScore <= 0 THEN "Invalid game score"
  ELSE IF claimAmount > gameScore * 2 THEN "Claim amount exceeds expected reward"
  ELSE ""

APlayer == [exists |-> TRUE, score |-> 50, totalWmintEarned |-> 0, level |-> 1,
            streak |-> 1, gamesPlayed |-> 1]

ClaimInit ==
  /\ HandshakeInit
  /\ platform = "desktop"
  /\ CodecIdle
  /\ HrefIdle
  /\ HookIdle
  /\ RetryIdle
  /\ kvPlayer \in {NoPlayer, APlayer}
  /\ kvClaims = {}
  /\ kvMints = {}
  /\ minted = 0
  /\ claimMints = [k \in ClaimKeys |-> 0]
  /\ earned = kvPlayer.score
  /\ requests = <<>>
  /\ tabs = <<>>
  /\ answers = 0
  /\ claims = 0

\* a POST /token/claim arrives
ClaimRequest ==
  /\ Len(requests) < MaxRequests
  /\ \E body \in ClaimBodies : requests' = Append(requests, Request("/token/claim", body))
  /\ UNCHANGED <<kvPlayer, kvClaims, kvMints, minted, claimMints, earned, tabs, answers, claims,
                 outsideServer>>

\* /token/claim from the body to the answer of kv.get(claimKey)
TokenClaimCheck ==
  \E i \in 1..Len(requests), t \in Timestamps :
    LET r == requests[i]
        claimKey == IF r.gameId = "" THEN t ELSE r.gameId
        reason == validateRewardClaim(r.wallet, r.gameScore, r.amount)
    IN /\ r.endpoint = "/token/claim"
       /\ r.pc = "received"
       /\ (r.gameId # "" \/ r.wallet = "" \/ r.amount <= 0 \/ reason # "")
            => t = "1730000000000"
       /\ requests' =
            [requests EXCEPT ![i] =
               IF r.wallet = "" THEN Respond(r, 400, "Wallet address is required")
               ELSE IF r.amount <= 0 THEN Respond(r, 400, "Invalid reward amount")
               ELSE IF reason # "" THEN Respond(r, 400, reason)
               ELSE IF claimKey \in kvClaims
                    THEN Respond([r EXCEPT !.key = claimKey], 400,
                                 "Reward already claimed for this game")
               ELSE [r EXCEPT !.pc = "checked", !.key = claimKey]]
       /\ UNCHANGED <<kvPlayer, kvClaims, kvMints, minted, claimMints, earned, tabs,
                      answers, claims, outsideServer>>

\* /token/claim: mintTokensToPlayer returns; ok is whether the transaction went through
TokenClaimMint ==
  \E i \in 1..Len(requests), ok \in BOOLEAN :
    LET r == requests[i]
    IN /\ r.endpoint = "/token/claim"
       /\ r.pc = "checked"
       /\ IF ok
          THEN /\ minted' = minted + r.amount
               /\ claimMints' = [claimMints EXCEPT ![r.key] = @ + 1]
               /\ requests' = [requests EXCEPT ![i].pc = "minted"]
          ELSE /\ requests' = [requests EXCEPT ![i] = Respond(r, 500, "Failed to mint tokens")]
               /\ UNCHANGED <<minted, claimMints>>
       /\ UNCHANGED <<kvPlayer, kvClaims, kvMints, earned, tabs, answers, claims, outsideServer>>

\* /token/claim: the claim is recorded and the player's total is updated
TokenClaimRecord ==
  \E i \in 1..Len(requests) :
    LET r == requests[i]
    IN /\ r.endpoint = "/token/claim"
       /\ r.pc = "minted"
       /\ kvClaims' = kvClaims \cup {r.key}
       /\ kvPlayer' = IF kvPlayer.exists
                      THEN [kvPlayer EXCEPT !.totalWmintEarned = @ + r.amount]
                      ELSE kvPlayer
       /\ requests' = [requests EXCEPT ![i] = Respond(r, 200, "")]
       /\ UNCHANGED <<kvMints, minted, claimMints, earned, tabs, answers, claims, outsideServer>>

ClaimNext ==
  \/ ClaimRequest
  \/ TokenClaimCheck
  \/ TokenClaimMint
  \/ TokenClaimRecord

ClaimSpec == ClaimInit /\ [][ClaimNext]_vars

\* C23: for a wallet and a gameId, /token/claim mints at most once, however
\* the claim requests for that gameId interleave.
C23_OneMintPerGameId ==
  \A g \in GameIds : claimMints[g] <= 1

(***************************************************************************)
(* The reward flow: browser tabs of one player answer words and claim the  *)
(* accumulated score; the server keeps the player record and mints.        *)
(***************************************************************************)
Difficulties == {"easy", "normal", "hard"}

\* the difficulty the player picks
PlayedDifficulties == {"hard"}

getWMINTForDifficulty(difficulty) ==
  CASE difficulty = "easy" -> 3
    [] difficulty = "normal" -> 5
    [] difficulty = "hard" -> 7
    [] OTHER -> 5

\* handleSubmitAnswer: the reward of a correct answer
totalWMINT(playerData, difficulty) ==
  getWMINTForDifficulty(difficulty) * 10
    + (playerData.streak \div 5) * 10
    + (playerData.level \div 10) * 10

\* the record loadPlayerData creates for a wallet the server does not know
NewPlayer == [exists |-> TRUE, score |-> 0, totalWmintEarned |-> 0, level |-> 1,
              streak |-> 0, gamesPlayed |-> 0]

TabIds == {1, 2}

ClosedTab == [pc |-> "closed", playerData |-> NoPlayer, isMintingTokens |-> FALSE]

\* a tab awaits one fetch at a time: requests[t] is the request of tab t
NoRequest ==
  [Request("", Body("", 0, 0, "")) EXCEPT !.pc = "none"]

Fetch(t, endpoint, body) == [requests EXCEPT ![t] = Request(endpoint, body)]

Waiting(t) == requests[t].pc # "none"

\* the response was read: the request is over
Consumed(t) == [requests EXCEPT ![t] = NoRequest]

\* response.ok
Ok(r) == r.status = 200

RewardInit ==
  /\ HandshakeInit
  /\ platform = "desktop"
  /\ CodecIdle
  /\ HrefIdle
  /\ HookIdle
  /\ RetryIdle
  /\ kvPlayer = NewPlayer
  /\ kvClaims = {}
  /\ kvMints = {}
  /\ minted = 0
  /\ claimMints = <<>>
  /\ earned = 0
  /\ requests = [t \in TabIds |-> NoRequest]
  /\ tabs = [t \in TabIds |-> ClosedTab]
  /\ answers = 0
  /\ claims = 0

\* App mounts in a tab and loadPlayerData fetches the record; the tabs are
\* numbered in the order they are opened
LoadPlayerData ==
  \E t \in TabIds :
    /\ tabs[t].pc = "closed"
    /\ \A u \in TabIds : u < t => tabs[u].pc # "closed"
    /\ tabs' = [tabs EXCEPT ![t] = [pc |-> "dashboard", playerData |-> kvPlayer,
                                    isMintingTokens |-> FALSE]]
    /\ UNCHANGED <<kvPlayer, kvClaims, kvMints, minted, claimMints, earned, requests,
                   answers, claims, outsideServer>>

\* handleSubmitAnswer up to the fetch of updatePlayerStats
SubmitAnswer ==
  \E t \in TabIds, difficulty \in PlayedDifficulties, correct \in BOOLEAN :
    LET playerData == tabs[t].playerData
        scoreIncrease == IF correct THEN totalWMINT(playerData, difficulty) ELSE 0
    IN /\ tabs[t].pc = "dashboard"
       /\ playerData.exists
       /\ answers < MaxAnswers
       /\ ~correct => difficulty = "hard"
       /\ answers' = answers + 1
       /\ requests' = Fetch(t, "/player/stats",
                               [wallet |-> WalletAddress, amount |-> scoreIncrease,
                                gameScore |-> 0, gameId |-> "", tab |-> t,
                                isCorrect |-> correct])
       /\ tabs' = [tabs EXCEPT ![t].pc = "answering"]
       /\ UNCHANGED <<kvPlayer, kvClaims, kvMints, minted, claimMints, earned, claims,
                      outsideServer>>

\* PATCH /player/:walletAddress/stats up to the answer of kv.get
PatchStatsGet ==
  \E i \in 1..Len(requests) :
    LET r == requests[i]
    IN /\ r.endpoint = "/player/stats"
       /\ r.pc = "received"
       /\ requests' = [requests EXCEPT ![i] =
                         IF kvPlayer.exists THEN [r EXCEPT !.pc = "read", !.player = kvPlayer]
                         ELSE Respond(r, 404, "Player not found")]
       /\ UNCHANGED <<kvPlayer, kvClaims, kvMints, minted, claimMints, earned, tabs,
                      answers, claims, outsideServer>>

\* PATCH /player/:walletAddress/stats: kv.set of the updated record and the response
PatchStatsSet ==
  \E i \in 1..Len(requests) :
    LET r == requests[i]
        existingData == r.player
        updatedData == [existingData EXCEPT
                          !.score = existingData.score + r.amount,
                          !.streak = IF r.isCorrect THEN existingData.streak + 1 ELSE 0,
                          !.gamesPlayed = existingData.gamesPlayed + 1,
                          !.level = ((existingData.gamesPlayed + 1) \div 5) + 1]
    IN /\ r.endpoint = "/player/stats"
       /\ r.pc = "read"
       /\ kvPlayer' = updatedData
       /\ earned' = earned + r.amount
       /\ requests' = [requests EXCEPT ![i] = [Respond(r, 200, "") EXCEPT !.player = updatedData]]
       /\ UNCHANGED <<kvClaims, kvMints, minted, claimMints, tabs, answers, claims,
                      outsideServer>>

\* handleSubmitAnswer after updatePlayerStats settled
AnswerReturned ==
  \E t \in TabIds :
    /\ tabs[t].pc = "answering"
    /\ Waiting(t)
    /\ LET r == requests[t]
       IN /\ r.pc = "done"
          /\ tabs' = [tabs EXCEPT ![t] =
                        IF Ok(r) THEN [@ EXCEPT !.pc = "dashboard", !.playerData = r.player]
                        ELSE [@ EXCEPT !.pc = "dashboard"]]
    /\ requests' = Consumed(t)
    /\ UNCHANGED <<kvPlayer, kvClaims, kvMints, minted, claimMints, earned, answers,
                   claims, outsideServer>>

\* Date.now() of the n-th click on Claim Rewards: the clicks of a player
\* fall into different milliseconds
ClickTime(n) ==
  CASE n = 1 -> "1730000000000"
    [] n = 2 -> "1730000000001"
    [] n = 3 -> "1730000000002"
    [] OTHER -> "1730000000003"

\* handleClaimRewards up to the fetch of mintTokens; the button is shown when
\* the score is positive and is disabled while isClaiming
ClaimRewards ==
  \E t \in TabIds :
    LET playerData == tabs[t].playerData
    IN /\ tabs[t].pc = "dashboard"
       /\ ~tabs[t].isMintingTokens
       /\ playerData.exists
       /\ playerData.score > 0
       /\ claims < MaxClaims
       /\ claims' = claims + 1
       /\ requests' = Fetch(t, "/mint-tokens",
                               [wallet |-> WalletAddress, amount |-> playerData.score,
                                gameScore |-> playerData.score,
                                gameId |-> ClickTime(claims + 1),
                                tab |-> t, isCorrect |-> FALSE])
       /\ tabs' = [tabs EXCEPT ![t].pc = "minting", ![t].isMintingTokens = TRUE]
       /\ UNCHANGED <<kvPlayer, kvClaims, kvMints, minted, claimMints, earned, answers,
                      outsideServer>>

\* /mint-tokens from the body to the return of mintTokensToPlayer
MintTokens ==
  \E i \in 1..Len(requests), ok \in BOOLEAN :
    LET r == requests[i]
        valid == r.wallet # "" /\ r.amount > 0 /\ r.amount <= 200
    IN /\ r.endpoint = "/mint-tokens"
       /\ r.pc = "received"
       /\ ~valid => ok
       /\ requests' =
            [requests EXCEPT ![i] =
               IF r.wallet = "" THEN Respond(r, 400, "Wallet address is required")
               ELSE IF r.amount <= 0 THEN Respond(r, 400, "Invalid amount")
               ELSE IF r.amount > 200
                    THEN Respond(r, 400, "Amount too high for single word reward")
               ELSE IF ok THEN [r EXCEPT !.pc = "minted"]
               ELSE Respond(r, 500, "Failed to mint tokens")]
       /\ minted' = IF valid /\ ok THEN minted + r.amount ELSE minted
       /\ UNCHANGED <<kvPlayer, kvClaims, kvMints, claimMints, earned, tabs, answers,
                      claims, outsideServer>>

\* /mint-tokens: the mint is recorded and the signature is returned
MintTokensRecord ==
  \E i \in 1..Len(requests) :
    LET r == requests[i]
    IN /\ r.endpoint = "/mint-tokens"
       /\ r.pc = "minted"
       /\ kvMints' = kvMints \cup {r.gameId}
       /\ requests' = [requests EXCEPT ![i] = Respond(r, 200, "")]
       /\ UNCHANGED <<kvPlayer, kvClaims, minted, claimMints, earned, tabs, answers,
                      claims, outsideServer>>

\* handleClaimRewards after mintTokens settled, up to the fetch of resetPlayerScore
MintReturned ==
  \E t \in TabIds :
    /\ tabs[t].pc = "minting"
    /\ Waiting(t)
    /\ LET r == requests[t]
           playerData == tabs[t].playerData
       IN /\ r.pc = "done"
          /\ IF Ok(r)
             THEN /\ requests' = Fetch(t, "/reset-score",
                                       [wallet |-> WalletAddress,
                                        amount |-> playerData.score,
                                        gameScore |-> 0, gameId |-> "",
                                        tab |-> t, isCorrect |-> FALSE])
                  /\ tabs' = [tabs EXCEPT ![t].pc = "resetting"]
             ELSE /\ requests' = Consumed(t)
                  /\ tabs' = [tabs EXCEPT ![t] = [@ EXCEPT !.pc = "dashboard",
                                                          !.isMintingTokens = FALSE]]
    /\ UNCHANGED <<kvPlayer, kvClaims, kvMints, minted, claimMints, earned, answers,
                   claims, outsideServer>>

\* /reset-score up to the answer of kv.get
ResetScoreGet ==
  \E i \in 1..Len(requests) :
    LET r == requests[i]
    IN /\ r.endpoint = "/reset-score"
       /\ r.pc = "received"
       /\ requests' = [requests EXCEPT ![i] =
                         IF r.wallet = "" THEN Respond(r, 400, "Wallet address is required")
                         ELSE IF kvPlayer.exists
                              THEN [r EXCEPT !.pc = "read", !.player = kvPlayer]
                         ELSE Respond(r, 404, "Player not found")]
       /\ UNCHANGED <<kvPlayer, kvClaims, kvMints, minted, claimMints, earned, tabs,
                      answers, claims, outsideServer>>

\* /reset-score: kv.set of the record with score 0 and the response
ResetScoreSet ==
  \E i \in 1..Len(requests) :
    LET r == requests[i]
        existingData == r.player
        updatedData == [existingData EXCEPT
                          !.score = 0,
                          !.totalWmintEarned = existingData.totalWmintEarned + r.amount]
    IN /\ r.endpoint = "/reset-score"
       /\ r.pc = "read"
       /\ kvPlayer' = updatedData
       /\ requests' = [requests EXCEPT ![i] = [Respond(r, 200, "") EXCEPT !.player = updatedData]]
       /\ UNCHANGED <<kvClaims, kvMints, minted, claimMints, earned, tabs, answers,
                      claims, outsideServer>>

\* handleClaimRewards after resetPlayerScore settled
ResetReturned ==
  \E t \in TabIds :
    /\ tabs[t].pc = "resetting"
    /\ Waiting(t)
    /\ LET r == requests[t]
       IN /\ r.pc = "done"
          /\ tabs' = [tabs EXCEPT ![t] =
                        IF Ok(r)
                        THEN [@ EXCEPT !.pc = "dashboard", !.playerData = r.player,
                                       !.isMintingTokens = FALSE]
                        ELSE [@ EXCEPT !.pc = "dashboard", !.isMintingTokens = FALSE]]
    /\ requests' = Consumed(t)
    /\ UNCHANGED <<kvPlayer, kvClaims, kvMints, minted, claimMints, earned, answers,
                   claims, outsideServer>>

\* the network drops a request before it reaches the server: fetch rejects
FetchFails ==
  \E i \in 1..Len(requests) :
    /\ requests[i].pc = "received"
    /\ requests[i].endpoint \in {"/mint-tokens", "/reset-score"}
    /\ requests' = [requests EXCEPT ![i] = Respond(@, 0, "Failed to fetch")]
    /\ UNCHANGED <<kvPlayer, kvClaims, kvMints, minted, claimMints, earned, tabs,
                   answers, claims, outsideServer>>

RewardNext ==
  \/ LoadPlayerData
  \/ SubmitAnswer
  \/ PatchStatsGet
  \/ PatchStatsSet
  \/ AnswerReturned
  \/ ClaimRewards
  \/ MintTokens
  \/ MintTokensRecord
  \/ MintReturned
  \/ ResetScoreGet
  \/ ResetScoreSet
  \/ ResetReturned
  \/ FetchFails

RewardSpec == RewardInit /\ [][RewardNext]_vars

\* the answers of the amount validation of /mint-tokens
AmountErrors == {"Invalid amount", "Amount too high for single word reward"}

\* C24: Claim Rewards sends the whole accumulated score of the tab as the
\* amount of one /mint-tokens request, and the amount validation of the
\* server never rejects such a request.
C24_WholeScoreAccepted ==
  \A i \in 1..Len(requests) :
    requests[i].endpoint = "/mint-tokens"
      => /\ requests[i].amount = tabs[requests[i].tab].playerData.score
         /\ requests[i].amount > 0
         /\ requests[i].error \notin AmountErrors

\* C25: the total minted to the wallet never exceeds the total score the
\* player has earned, however the claim flows of the tabs interleave.
C25_MintedAtMostEarned ==
  minted <= earned

(***************************************************************************)
(* retryRpcCall: the retry wrapper of the RPC calls of the mint.           *)
(***************************************************************************)
\* what fn can resolve with and what it can throw
FnValues == {"signature", "tokenAccount"}

FnErrors == {"fetch failed", "429 Too Many Requests"}

Resolved(value) == [ok |-> TRUE, value |-> value]

Rejected(error) == [ok |-> FALSE, value |-> error]

FnOutcomes == {Resolved(v) : v \in FnValues} \cup {Rejected(e) : e \in FnErrors}

\* the initial delays the callers pass
DelayChoices == {500, 1000}

Returned(value) == [kind |-> "returned", value |-> value]

Thrown(error) == [kind |-> "thrown", value |-> error]

RetryInit ==
  /\ HandshakeInit
  /\ platform = "desktop"
  /\ CodecIdle
  /\ HrefIdle
  /\ HookIdle
  /\ ServerIdle
  /\ maxRetries \in 0..MaxRetryLimit
  /\ delayMs \in DelayChoices
  /\ rpcPc = "idle"
  /\ loopIndex = 0
  /\ lastError = "undefined"
  /\ calls = 0
  /\ attempts = <<>>
  /\ sleeps = <<>>
  /\ settled = NotSettled

\* a wrapper that waits delayMs after every failure
constantDelay(delay, n) == delay

\* const delay = delayMs * Math.pow(2, i)
backoffDelay(delay, n) == delay * 2^n

\* retryRpcCall is called and runs to its first await
RetryRpcCall ==
  /\ rpcPc = "idle"
  /\ IF loopIndex < maxRetries
     THEN /\ rpcPc' = "calling"
          /\ calls' = calls + 1
          /\ UNCHANGED settled
     ELSE /\ rpcPc' = "done"
          /\ settled' = Thrown(lastError)
          /\ UNCHANGED calls
  /\ UNCHANGED <<maxRetries, delayMs, loopIndex, lastError, attempts, sleeps, outsideRetry>>

\* the promise of fn() settles: return, or catch up to the next await
FnSettles ==
  \E outcome \in FnOutcomes :
    /\ rpcPc = "calling"
    /\ attempts' = Append(attempts, outcome)
    /\ IF outcome.ok
       THEN /\ rpcPc' = "done"
            /\ settled' = Returned(outcome.value)
            /\ UNCHANGED <<loopIndex, lastError, sleeps>>
       ELSE /\ lastError' = outcome.value
            /\ IF loopIndex < maxRetries - 1
               THEN /\ sleeps' = Append(sleeps, backoffDelay(delayMs, loopIndex))
                    /\ rpcPc' = "sleeping"
                    /\ UNCHANGED <<loopIndex, settled>>
               ELSE /\ loopIndex' = loopIndex + 1
                    /\ rpcPc' = "done"
                    /\ settled' = Thrown(outcome.value)
                    /\ UNCHANGED sleeps
    /\ UNCHANGED <<maxRetries, delayMs, calls, outsideRetry>>

\* the timer of the backoff fires: i++ and the next turn of the loop
BackoffElapsed ==
  /\ rpcPc = "sleeping"
  /\ loopIndex' = loopIndex + 1
  /\ IF loopIndex + 1 < maxRetries
     THEN /\ rpcPc' = "calling"
          /\ calls' = calls + 1
          /\ UNCHANGED settled
     ELSE /\ rpcPc' = "done"
          /\ settled' = Thrown(lastError)
          /\ UNCHANGED calls
  /\ UNCHANGED <<maxRetries, delayMs, lastError, attempts, sleeps, outsideRetry>>

RetryNext ==
  \/ RetryRpcCall
  \/ FnSettles
  \/ BackoffElapsed

RetrySpec == RetryInit /\ [][RetryNext]_vars

AllFailed == \A k \in 1..Len(attempts) : ~attempts[k].ok

\* the failed attempts that are not the final attempt
FailedBeforeFinal ==
  Cardinality({k \in 1..Len(attempts) : ~attempts[k].ok /\ k < maxRetries})

\* C29: retryRpcCall calls fn at most maxRetries times; a successful call is
\* the last call and its result is returned; when all maxRetries attempts
\* have failed it throws the error of the last attempt; it sleeps
\* delayMs * 2^i after failed attempt i and not after the final attempt.
C29_RetryRpcCallContract ==
  /\ calls <= maxRetries
  /\ Len(attempts) <= calls
  /\ \A k \in 1..Len(attempts) :
       attempts[k].ok => /\ k = Len(attempts)
                         /\ calls = k
                         /\ settled = Returned(attempts[k].value)
  /\ settled.kind = "returned" => Len(attempts) > 0 /\ attempts[Len(attempts)].ok
  /\ (rpcPc # "idle" /\ Len(attempts) = maxRetries /\ AllFailed)
       => /\ settled.kind = "thrown"
          /\ maxRetries > 0 => settled.value = attempts[maxRetries].value
  /\ settled.kind = "thrown" => Len(attempts) = maxRetries /\ AllFailed
  /\ Len(sleeps) = FailedBeforeFinal
  /\ \A k \in 1..Len(sleeps) : sleeps[k] = delayMs * 2^(k - 1)

\* three attempts failed: two sleeps of 1000 and 2000, then the last error is thrown
C29_Witness ==
  /\ maxRetries = 3
  /\ delayMs = 1000
  /\ calls = 3
  /\ Len(attempts) = 3
  /\ settled = Thrown(attempts[3].value)
  /\ sleeps = <<1000, 2000>>

====
